---- MODULE Spec2Model ----
(***************************************************************************)
(* Model of the diagnostics server (src/diagnostics/server.mjs): the       *)
(* backend process runner, the service state resolver, the action          *)
(* dispatcher, the log stream multiplexer, the provider normalisation, the *)
(* credential freshness evaluator with the provider health roll-up, and    *)
(* the provider model aggregator.  Times are in seconds.                   *)
(*                                                                         *)
(* Text is a sequence of characters.  A character is a one-element string; *)
(* "NL", "CR" and "SP" stand for line feed, carriage return and space.  A  *)
(* byte is written the same way, with "C3" and "A9" the two bytes of the   *)
(* UTF-8 encoding of one non-ASCII character, written "E9" once decoded.   *)
(* JavaScript null is the empty sequence where a number may stand          *)
(* (<<>> or <<n>>) and the string "null" where a name may stand.           *)
(***************************************************************************)
EXTENDS Integers, Sequences, FiniteSets, TLC

VARIABLES
    \* runCommand: one call
    run_child,        \* "failed" | "errored" | "alive" | "exited" | "closed"
    run_behaviour,    \* what the child program does: "exits" | "hangs" | "stubborn"
    run_timer,        \* "armed" | "fired" | "cleared"
    run_timedOut,     \* the local timedOut
    run_stdout,       \* the local stdout
    run_stderr,       \* the local stderr
    run_killed,       \* child.killed
    run_signals,      \* number of SIGTERM delivered to the child process
    run_exit,         \* [code, signal] the child ended with
    run_chunks,       \* data events delivered so far
    run_resolveCalls, \* number of resolve(...) calls made
    run_settled,      \* the value the promise settled with: <<>> or <<record>>
    \* getServiceSummary: one call
    sum_mode,         \* DOCKER_MODE
    sum_pc,           \* "start" | "awaitCompose" | "awaitPs" | "awaitInspect" | "done"
    sum_calls,        \* the docker commands issued so far, in order
    sum_compose,      \* what "docker compose ps" returned: <<>> or <<result>>
    sum_ps,           \* what "docker ps" returned
    sum_inspect,      \* what "docker inspect" returned
    sum_summary,      \* the summary returned: <<>> or <<summary>>
    \* POST /api/container/<action>: one request
    act_mode,         \* DOCKER_MODE
    act_action,       \* the action name taken from the path
    act_pc,           \* "start" | "awaitCompose" | "awaitDirect" | "done" | "threw"
    act_calls,        \* the subprocesses spawned so far: [backend, args]
    act_composeRes,   \* what the compose command returned: <<>> or <<result>>
    act_directRes,    \* what the direct command returned
    act_result,       \* what runContainerAction returned: <<>> or <<record>>
    act_response,     \* the HTTP status sent: 0 (none yet), 200 or 500
    \* streamLogs: one open log stream
    log_stdoutRest,   \* bytes the child has yet to deliver on stdout
    log_stderrRest,   \* bytes the child has yet to deliver on stderr
    log_stdoutSent,   \* bytes delivered on stdout so far, all chunks joined
    log_stderrSent,   \* bytes delivered on stderr so far, all chunks joined
    log_buffer,       \* the local buffer
    log_out,          \* what was done to res, in order: writes and end()
    log_child,        \* "failed" | "errored" | "alive" | "exited" | "closed"
    log_exitCode,     \* the code of the 'close' event: <<>> (null) or <<n>>
    log_killed,       \* child.killed
    log_signals,      \* number of SIGTERM sent to the child process
    log_heartbeat,    \* whether the heartbeat interval is set
    log_reqEvents,    \* the events ("close", "aborted") the request has emitted
    \* normalizeProviderName: one provider hint, normalised when the file is
    \* read and again when the files are grouped
    np_raw,           \* the hint: parsed.type, parsed.provider or the file name
    np_pc,            \* "start" | "read" | "grouped"
    np_provider,      \* the provider field of the file record
    np_group,         \* the key the file is grouped under
    \* getAuthMechanisms: one call
    hl_pc,            \* "read" | "built"
    hl_files,         \* the records readAuthFiles has pushed, in file-name order
    hl_static,        \* the staticCounts object: provider -> number of keys
    hl_evals,         \* evaluateOAuthFileFreshness of each file, by index
    hl_output,        \* what buildProviderHealth returned
    \* getProviderModels: one call
    mdl_exchangeA,    \* what the request to /v1/models comes to
    mdl_exchangeB,    \* what the request to /v1beta/models comes to
    mdl_openai,       \* openaiModelsResp: <<>> (pending) or <<result>>
    mdl_gemini,       \* geminiModelsResp: <<>> (pending) or <<result>>
    mdl_first,        \* the endpoint whose result arrived first: "" | "openai" | "gemini"
    mdl_doc,          \* the document returned: <<>> or <<document>>
    \* inferProviderFromModel: one call
    inf_id,           \* the argument modelID
    inf_owner,        \* the argument ownedBy
    inf_pc,           \* "start" | "done"
    inf_provider,     \* the provider returned
    \* the HTTP server: the requests it has received
    srv_mode,         \* DOCKER_MODE
    srv_allowRemote,  \* ALLOW_REMOTE
    srv_reqs,         \* one record per request received, in order of arrival
    srv_effects,      \* the subprocess, file and network work started, in order
    \* the dashboard client (one page)
    cli_viewport,     \* "ok" | "small": the window against the minimum size
    cli_blocked,      \* state.resolutionBlocked
    cli_eventSource,  \* state.eventSource: 0 (null) or the EventSource
    cli_open,         \* the EventSource objects that are not closed
    cli_timers,       \* pending window.setTimeout(connectLogs, 1800) callbacks
    cli_refreshes,    \* refreshData calls awaiting their first two fetches
    cli_actions,      \* runAction calls awaiting their fetch
    cli_currentContainer, \* state.currentContainer
    cli_logsState,    \* el.logsState.textContent: "" | "streaming" | "reconnecting" | "paused"
    cli_connectCaller \* who called connectLogs last since the gate last changed:
                      \* "" | "refresh" | "timer"

sumVars == <<sum_mode, sum_pc, sum_calls, sum_compose, sum_ps, sum_inspect,
             sum_summary>>

actVars == <<act_mode, act_action, act_pc, act_calls, act_composeRes, act_directRes,
             act_result, act_response>>

logVars == <<log_stdoutRest, log_stderrRest, log_stdoutSent, log_stderrSent,
             log_buffer, log_out, log_child, log_exitCode, log_killed, log_signals,
             log_heartbeat, log_reqEvents>>

runVars == <<run_child, run_behaviour, run_timer, run_timedOut, run_stdout,
             run_stderr, run_killed, run_signals, run_exit, run_chunks,
             run_resolveCalls, run_settled>>

npVars == <<np_raw, np_pc, np_provider, np_group>>

\* The components added after the first four.
hlVars == <<hl_pc, hl_files, hl_static, hl_evals, hl_output>>

mdlVars == <<mdl_exchangeA, mdl_exchangeB, mdl_openai, mdl_gemini, mdl_first, mdl_doc>>

infVars == <<inf_id, inf_owner, inf_pc, inf_provider>>

srvVars == <<srv_mode, srv_allowRemote, srv_reqs, srv_effects>>

cliVars == <<cli_viewport, cli_blocked, cli_eventSource, cli_open, cli_timers,
             cli_refreshes, cli_actions, cli_currentContainer, cli_logsState,
             cli_connectCaller>>

lastVars == <<infVars, srvVars, cliVars>>

moreVars == <<npVars, hlVars, mdlVars, lastVars>>

vars == <<runVars, sumVars, actVars, logVars, moreVars>>

\* What each component leaves alone.
notRunVars == <<sumVars, actVars, logVars, moreVars>>
notSumVars == <<runVars, actVars, logVars, moreVars>>
notActVars == <<runVars, sumVars, logVars, moreVars>>
notLogVars == <<runVars, sumVars, actVars, moreVars>>
firstVars == <<runVars, sumVars, actVars, logVars>>
notNpVars == <<firstVars, hlVars, mdlVars, lastVars>>
notHlVars == <<firstVars, npVars, mdlVars, lastVars>>
notMdlVars == <<firstVars, npVars, hlVars, lastVars>>
earlierVars == <<firstVars, npVars, hlVars, mdlVars>>
notInfVars == <<earlierVars, srvVars, cliVars>>
notSrvVars == <<earlierVars, infVars, cliVars>>
notCliVars == <<earlierVars, infVars, srvVars>>

----------------------------------------------------------------------------
(* Bounds *)

MaxRunChunks == 2
MaxStdoutBytes == 3
MaxStderrBytes == 1
MaxPings == 1
MaxSources == 3
MaxTimers == 2
MaxRefreshes == 2
MaxActions == 1
MaxRequests == 2

----------------------------------------------------------------------------
(* Characters and text *)

NL == "NL"
CR == "CR"
SP == "SP"
LeadByte == "C3"
ContByte == "A9"
NonAscii == "E9"
Replacement == "FFFD"

\* String.prototype.trim strips white space and line terminators at both ends.
IsSpace(c) == c \in {NL, CR, SP}

RECURSIVE TrimStart(_)
TrimStart(s) ==
    IF s = <<>> \/ ~IsSpace(Head(s)) THEN s ELSE TrimStart(Tail(s))

RECURSIVE TrimEnd(_)
TrimEnd(s) ==
    IF s = <<>> \/ ~IsSpace(s[Len(s)]) THEN s
    ELSE TrimEnd(SubSeq(s, 1, Len(s) - 1))

Trim(s) == TrimEnd(TrimStart(s))

\* text.split(/\r?\n/): the parts between the separators, empty parts kept.
RECURSIVE SplitFrom(_, _)
SplitFrom(s, cur) ==
    IF s = <<>> THEN <<cur>>
    ELSE IF Head(s) = NL THEN <<cur>> \o SplitFrom(Tail(s), <<>>)
    ELSE IF Head(s) = CR /\ Len(s) >= 2 /\ s[2] = NL
         THEN <<cur>> \o SplitFrom(Tail(Tail(s)), <<>>)
    ELSE SplitFrom(Tail(s), Append(cur, Head(s)))

SplitLines(s) == SplitFrom(s, <<>>)

\* Buffer.toString("utf8") / String(buffer): a complete two-byte sequence is one
\* character; a lead byte without its continuation byte, and a continuation
\* byte without its lead byte, each decode to U+FFFD.
RECURSIVE Utf8Decode(_)
Utf8Decode(bytes) ==
    IF bytes = <<>> THEN <<>>
    ELSE IF Head(bytes) = LeadByte
         THEN IF Len(bytes) >= 2 /\ bytes[2] = ContByte
              THEN <<NonAscii>> \o Utf8Decode(Tail(Tail(bytes)))
              ELSE <<Replacement>> \o Utf8Decode(Tail(bytes))
    ELSE IF Head(bytes) = ContByte
         THEN <<Replacement>> \o Utf8Decode(Tail(bytes))
    ELSE <<Head(bytes)>> \o Utf8Decode(Tail(bytes))

\* a || b || c on strings: the first non-empty one.
OrElse(a, b) == IF a # <<>> THEN a ELSE b

----------------------------------------------------------------------------
(* runCommand (Backend Process Runner) *)

SpawnErrorMessage == <<"s", "p", "a", "w", "n", SP, "E", "N", "O", "E", "N", "T">>
SpawnErrno == -2

\* The record resolved by the 'close' handler.
CloseResult(code, signal, timedOut, stdout, stderr) ==
    [code     |-> IF code # <<>> THEN code[1] ELSE -1,
     signal   |-> signal,
     timedOut |-> timedOut,
     stdout   |-> stdout,
     stderr   |-> stderr]

\* The record resolved by the 'error' handler.
ErrorResultNoMessage(timedOut, message) ==
    [code |-> -1, signal |-> "null", timedOut |-> timedOut,
     stdout |-> <<>>, stderr |-> <<>>]

ErrorResult(timedOut, message) ==
    [code     |-> -1,
     signal   |-> "null",
     timedOut |-> timedOut,
     stdout   |-> <<>>,
     stderr   |-> message]

\* resolve(value) of a promise: the first call settles it, later calls are ignored.
Resolve(settled, value) == IF settled = <<>> THEN <<value>> ELSE settled

RunChunkBytes == {<<"o">>, <<"o", NL>>}

RunInit ==
    /\ run_child \in {"alive", "failed"}
    /\ run_behaviour \in {"exits", "hangs", "stubborn"}
    /\ run_timer = "armed"
    /\ run_timedOut = FALSE
    /\ run_stdout = <<>>
    /\ run_stderr = <<>>
    /\ run_killed = FALSE
    /\ run_signals = 0
    /\ run_exit = [code |-> <<>>, signal |-> "null"]
    /\ run_chunks = 0
    /\ run_resolveCalls = 0
    /\ run_settled = <<>>

\* child.stdout.on("data")
RunStdoutData ==
    /\ run_child \in {"alive", "exited"}
    /\ run_chunks < MaxRunChunks
    /\ \E chunk \in RunChunkBytes :
          run_stdout' = run_stdout \o Utf8Decode(chunk)
    /\ run_chunks' = run_chunks + 1
    /\ UNCHANGED <<run_child, run_behaviour, run_timer, run_timedOut, run_stderr,
                   run_killed, run_signals, run_exit, run_resolveCalls, run_settled>>
    /\ UNCHANGED notRunVars

\* child.stderr.on("data")
RunStderrData ==
    /\ run_child \in {"alive", "exited"}
    /\ run_chunks < MaxRunChunks
    /\ \E chunk \in RunChunkBytes :
          run_stderr' = run_stderr \o Utf8Decode(chunk)
    /\ run_chunks' = run_chunks + 1
    /\ UNCHANGED <<run_child, run_behaviour, run_timer, run_timedOut, run_stdout,
                   run_killed, run_signals, run_exit, run_resolveCalls, run_settled>>
    /\ UNCHANGED notRunVars

\* The setTimeout callback: timedOut = true; child.kill("SIGTERM").  kill sends
\* the signal, and sets child.killed, only while the child process has not
\* ended.  A spawn failure is reported on the next tick, before any timer.
RunTimeout ==
    /\ run_timer = "armed"
    /\ run_child \in {"alive", "exited"}
    /\ run_timer' = "fired"
    /\ run_timedOut' = TRUE
    /\ IF run_child = "alive"
       THEN run_killed' = TRUE /\ run_signals' = run_signals + 1
       ELSE UNCHANGED <<run_killed, run_signals>>
    /\ UNCHANGED <<run_child, run_behaviour, run_stdout, run_stderr, run_exit,
                   run_chunks, run_resolveCalls, run_settled>>
    /\ UNCHANGED notRunVars

\* The child process ends: by itself with an exit code, or killed by SIGTERM
\* unless it ignores the signal.
RunChildExit ==
    /\ run_child = "alive"
    /\ \/ /\ run_behaviour = "exits"
          /\ \E c \in {0, 1} : run_exit' = [code |-> <<c>>, signal |-> "null"]
       \/ /\ run_behaviour # "stubborn"
          /\ run_signals > 0
          /\ run_exit' = [code |-> <<>>, signal |-> "SIGTERM"]
    /\ run_child' = "exited"
    /\ UNCHANGED <<run_behaviour, run_timer, run_timedOut, run_stdout, run_stderr,
                   run_killed, run_signals, run_chunks, run_resolveCalls, run_settled>>
    /\ UNCHANGED notRunVars

\* child.on("close"): emitted once the process has ended and its streams closed,
\* also after a spawn failure's 'error'.
RunClose ==
    /\ run_child \in {"exited", "errored"}
    /\ run_child' = "closed"
    /\ run_timer' = "cleared"
    /\ run_settled' = Resolve(run_settled,
           CloseResult(run_exit.code, run_exit.signal,
                       run_timedOut, run_stdout, run_stderr))
    /\ run_resolveCalls' = run_resolveCalls + 1
    /\ UNCHANGED <<run_behaviour, run_timedOut, run_stdout, run_stderr, run_killed,
                   run_signals, run_exit, run_chunks>>
    /\ UNCHANGED notRunVars

\* child.on("error"): the spawn failed.
RunError ==
    /\ run_child = "failed"
    /\ run_child' = "errored"
    /\ run_timer' = "cleared"
    /\ run_exit' = [code |-> <<SpawnErrno>>, signal |-> "null"]
    /\ run_settled' = Resolve(run_settled, ErrorResult(run_timedOut, SpawnErrorMessage))
    /\ run_resolveCalls' = run_resolveCalls + 1
    /\ UNCHANGED <<run_behaviour, run_timedOut, run_stdout, run_stderr, run_killed,
                   run_signals, run_chunks>>
    /\ UNCHANGED notRunVars

RunNext ==
    \/ RunStdoutData
    \/ RunStderrData
    \/ RunTimeout
    \/ RunChildExit
    \/ RunClose
    \/ RunError

\* The results a runCommand call can deliver for a command whose output is one
\* of `outs` and whose diagnostics are one of `errs`: a normal exit, a kill by
\* the timeout's SIGTERM, and a spawn failure.
CommandResults(outs, errs) ==
    {CloseResult(<<c>>, "null", FALSE, o, e) : c \in {0, 1}, o \in outs, e \in errs}
    \cup {CloseResult(<<>>, "SIGTERM", TRUE, o, e) : o \in outs, e \in errs}
    \cup {ErrorResult(FALSE, SpawnErrorMessage)}

----------------------------------------------------------------------------
(* Strings used as states and messages *)

S_running == <<"r", "u", "n", "n", "i", "n", "g">>
S_exited == <<"e", "x", "i", "t", "e", "d">>
S_restarting == <<"r", "e", "s", "t", "a", "r", "t", "i", "n", "g">>
S_created == <<"c", "r", "e", "a", "t", "e", "d">>
S_unknown == <<"u", "n", "k", "n", "o", "w", "n">>
S_notCreated == <<"n", "o", "t", "-", "c", "r", "e", "a", "t", "e", "d">>
S_up == <<"u", "p">>
S_dead == <<"d", "e", "a", "d">>
S_restart == <<"r", "e", "s", "t", "a", "r", "t">>

UpperCase == {"U", "R", "E", "D", "P", "G", "T"}

\* String.prototype.toLowerCase, character by character.
LowerChar(c) ==
    CASE c = "U" -> "u"
      [] c = "R" -> "r"
      [] c = "E" -> "e"
      [] c = "D" -> "d"
      [] c = "P" -> "p"
      [] c = "G" -> "g"
      [] c = "T" -> "t"
      [] OTHER -> c

ToLowerCase(s) == [i \in 1..Len(s) |-> LowerChar(s[i])]

StartsWith(s, p) == Len(s) >= Len(p) /\ SubSeq(s, 1, Len(p)) = p

Includes(s, p) ==
    \E i \in 1..(Len(s) - Len(p) + 1) : SubSeq(s, i, i + Len(p) - 1) = p

----------------------------------------------------------------------------
(* Configuration *)

DEFAULT_SERVICE == "api4llm"
TARGET_CONTAINER == DEFAULT_SERVICE
COMPOSE_FILE == "docker-compose.yml"

\* DIAG_DOCKER_MODE after trim and toLowerCase; anything but "compose" and
\* "container" is the automatic mode.
DockerModes == {"compose", "container", "auto", "other"}

----------------------------------------------------------------------------
(* JSON documents the docker CLI prints.  A JSON object is written in text *)
(* as one character that stands for its whole serialisation; the table     *)
(* gives the object JSON.parse returns for it.  A field the object lacks   *)
(* is the empty string, the empty sequence (ExitCode) or FALSE (Running).  *)

T_up == <<"U", "p", SP, "2">>
T_exitedStatus == <<"E", "x", "i", "t", "e", "d">>
T_runningUpper == <<"R", "u", "n", "n", "i", "n", "g">>

NoObject ==
    [Service |-> "", Name |-> "", Names |-> "", State |-> <<>>, Status |-> <<>>,
     Image |-> "", CreatedAt |-> "", RunningFor |-> "", ExitCode |-> <<>>,
     ID |-> "", Running |-> FALSE]

JSONObjects ==
    [a \in {"J1", "J2", "J3", "J4", "I1", "I2", "I3"} |->
        CASE a = "J1" -> [NoObject EXCEPT !.Service = "api4llm", !.Name = "api4llm-1",
                            !.Names = "api4llm", !.State = T_runningUpper,
                            !.Status = T_up, !.Image = "img", !.ID = "c1",
                            !.CreatedAt = "t0", !.RunningFor = "2h"]
          [] a = "J2" -> [NoObject EXCEPT !.Service = "db", !.Name = "db-1",
                            !.Names = "db", !.State = S_exited,
                            !.Status = T_exitedStatus, !.ExitCode = <<1>>, !.ID = "c2"]
          [] a = "J3" -> [NoObject EXCEPT !.Names = "api4llm", !.Status = T_up,
                            !.ID = "c3"]
          [] a = "J4" -> [NoObject EXCEPT !.Names = " ", !.Status = T_exitedStatus]
          [] a = "I1" -> [NoObject EXCEPT !.Status = S_running, !.Running = TRUE,
                            !.ExitCode = <<0>>]
          [] a = "I2" -> [NoObject EXCEPT !.Status = S_exited, !.Running = FALSE,
                            !.ExitCode = <<1>>]
          [] OTHER    -> [NoObject EXCEPT !.Status = S_restarting, !.Running = TRUE]]

\* JSON.parse(text) inside try/catch: <<object>>, or <<>> when it throws.
ParseJSON(text) ==
    IF Len(text) = 1 /\ text[1] \in DOMAIN JSONObjects
    THEN <<JSONObjects[text[1]]>>
    ELSE <<>>

splitJSONLines(raw) ==
    LET parts == SplitLines(raw)
        trimmed == [i \in 1..Len(parts) |-> Trim(parts[i])]
        kept == SelectSeq(trimmed, LAMBDA line : line # <<>>)
        parsed == [i \in 1..Len(kept) |-> ParseJSON(kept[i])]
        objects == SelectSeq(parsed, LAMBDA v : v # <<>>)
    IN  [i \in 1..Len(objects) |-> objects[i][1]]

----------------------------------------------------------------------------
(* Service State Resolver *)

deriveStateFromStatus(statusRaw) ==
    LET status == ToLowerCase(Trim(statusRaw))
    IN  IF status = <<>> THEN S_unknown
        ELSE IF StartsWith(status, S_up) \/ StartsWith(status, S_running) THEN S_running
        ELSE IF StartsWith(status, S_exited) \/ Includes(status, S_dead) THEN S_exited
        ELSE IF Includes(status, S_restart) THEN S_restarting
        ELSE IF Includes(status, S_created) THEN S_created
        ELSE S_unknown

\* a || b on names: the first non-empty one.
NameOr(a, b) == IF a # "" THEN a ELSE b

normalizeComposeServiceState(service) ==
    LET status == service.Status
        inferred == deriveStateFromStatus(status)
        composeState == ToLowerCase(service.State)
        state == OrElse(composeState, inferred)
    IN  [service    |-> NameOr(service.Service, NameOr(service.Name, DEFAULT_SERVICE)),
         container  |-> NameOr(service.Name, NameOr(service.Names, TARGET_CONTAINER)),
         state      |-> OrElse(state, S_unknown),
         status     |-> status,
         image      |-> service.Image,
         createdAt  |-> service.CreatedAt,
         runningFor |-> service.RunningFor,
         exitCode   |-> service.ExitCode,
         id         |-> service.ID,
         running    |-> state = S_running,
         exited     |-> state = S_exited]

\* String(containerName || "").trim() is empty for an empty or blank name.
IsBlankName(name) == name \in {"", " "}

\* inspectContainerState once "docker inspect" has returned `result`:
\* <<>> is null.  (startedAt and finishedAt are read by no caller.)
InspectState(result) ==
    IF result.code # 0 THEN <<>>
    ELSE LET payload == Trim(result.stdout)
             parsed == ParseJSON(payload)
         IN  IF payload = <<>> \/ parsed = <<>> THEN <<>>
             ELSE <<[status   |-> ToLowerCase(parsed[1].Status),
                     running  |-> parsed[1].Running,
                     exitCode |-> parsed[1].ExitCode]>>

normalizeContainerState(row, inspectState) ==
    LET status == row.Status
        inferred == deriveStateFromStatus(status)
        inspectStatus == IF inspectState = <<>> THEN <<>> ELSE inspectState[1].status
        state == OrElse(inspectStatus, inferred)
    IN  [service    |-> DEFAULT_SERVICE,
         container  |-> NameOr(row.Names, TARGET_CONTAINER),
         state      |-> OrElse(state, S_unknown),
         status     |-> status,
         image      |-> row.Image,
         createdAt  |-> row.CreatedAt,
         runningFor |-> row.RunningFor,
         exitCode   |-> IF inspectState = <<>> THEN <<>> ELSE inspectState[1].exitCode,
         id         |-> row.ID,
         running    |-> IF inspectState = <<>> THEN state = S_running
                        ELSE inspectState[1].running,
         exited     |-> state = S_exited]

T_notCreatedStatus == <<"n", "o", "t", SP, "c", "r", "e", "a", "t", "e", "d">>
T_composeFailed == <<"c", "o", "m", "p", "o", "s", "e", SP, "f", "a", "i", "l", "e", "d">>
T_psFailed == <<"p", "s", SP, "f", "a", "i", "l", "e", "d">>

\* The row both backends synthesise when the call succeeded with no rows.
PlaceholderRow ==
    [service |-> DEFAULT_SERVICE, container |-> TARGET_CONTAINER,
     state |-> S_notCreated, status |-> T_notCreatedStatus, image |-> "",
     createdAt |-> "", runningFor |-> "", exitCode |-> <<>>, id |-> "",
     running |-> FALSE, exited |-> FALSE]

PrimaryFirstRow(services) == IF services # <<>> THEN <<services[1]>> ELSE <<>>

\* services.find(svc => svc.service === DEFAULT_SERVICE) || services[0] || null
PrimaryOf(services) ==
    LET hits == SelectSeq(services, LAMBDA svc : svc.service = DEFAULT_SERVICE)
    IN  IF hits # <<>> THEN <<hits[1]>>
        ELSE IF services # <<>> THEN <<services[1]>>
        ELSE <<>>

\* getComposeServiceSummary once "docker compose ps" has returned composeResult.
\* (generatedAt, the time of the call, is left out of the summaries.)
ComposeSummary(mode, composeResult) ==
    LET dockerOk == composeResult.code = 0
        rows == IF dockerOk
                THEN LET objs == splitJSONLines(composeResult.stdout)
                     IN  [i \in 1..Len(objs) |-> normalizeComposeServiceState(objs[i])]
                ELSE <<>>
        services == IF rows = <<>> /\ dockerOk THEN <<PlaceholderRow>> ELSE rows
        primary == PrimaryOf(services)
    IN  [backend          |-> "compose",
         dockerMode       |-> mode,
         dockerAvailable  |-> dockerOk,
         composeFile      |-> COMPOSE_FILE,
         defaultService   |-> DEFAULT_SERVICE,
         defaultContainer |-> TARGET_CONTAINER,
         overallState     |-> IF primary = <<>> THEN S_unknown
                              ELSE IF primary[1].running THEN S_running
                              ELSE primary[1].state,
         services         |-> services,
         commandError     |-> IF dockerOk THEN <<>>
                              ELSE Trim(OrElse(composeResult.stderr,
                                        OrElse(composeResult.stdout, T_composeFailed)))]

ContainerSummaryBase(mode) ==
    [backend          |-> "container",
     dockerMode       |-> mode,
     dockerAvailable  |-> TRUE,
     composeFile      |-> COMPOSE_FILE,
     defaultService   |-> DEFAULT_SERVICE,
     defaultContainer |-> TARGET_CONTAINER,
     overallState     |-> S_unknown,
     services         |-> <<>>,
     commandError     |-> <<>>]

\* Whether getContainerServiceSummary goes on to "docker inspect" after
\* "docker ps" returned `result`: the call succeeded, printed a row, and the
\* row's name is not blank.
NeedsInspect(result) ==
    /\ result.code = 0
    /\ splitJSONLines(result.stdout) # <<>>
    /\ ~IsBlankName(NameOr(splitJSONLines(result.stdout)[1].Names, TARGET_CONTAINER))

\* getContainerServiceSummary once "docker ps" has returned `result` and, when
\* it ran, "docker inspect" has returned inspectResult (<<>>: it did not run).
ContainerSummary(mode, result, inspectResult) ==
    LET dockerOk == result.code = 0
        rows == splitJSONLines(result.stdout)
        inspect == IF inspectResult = <<>> THEN <<>> ELSE InspectState(inspectResult[1])
        primary == normalizeContainerState(rows[1], inspect)
    IN  IF ~dockerOk
        THEN [ContainerSummaryBase(mode) EXCEPT
                !.dockerAvailable = FALSE,
                !.commandError = Trim(OrElse(result.stderr,
                                      OrElse(result.stdout, T_psFailed)))]
        ELSE IF rows = <<>>
        THEN [ContainerSummaryBase(mode) EXCEPT
                !.overallState = S_notCreated,
                !.services = <<PlaceholderRow>>]
        ELSE [ContainerSummaryBase(mode) EXCEPT
                !.overallState = IF primary.running THEN S_running ELSE primary.state,
                !.services = <<primary>>]

\* getServiceSummary in automatic mode, once both summaries are known.
ResolveAutoPreferCompose(compose, container) == compose

ResolveAutoPreferContainer(compose, container) ==
    IF container.dockerAvailable
    THEN IF container.commandError = <<>> /\ compose.commandError # <<>>
         THEN [container EXCEPT !.commandError = compose.commandError]
         ELSE container
    ELSE container

ResolveAuto(compose, container) ==
    IF container.dockerAvailable
    THEN IF container.commandError = <<>> /\ compose.commandError # <<>>
         THEN [container EXCEPT !.commandError = compose.commandError]
         ELSE container
    ELSE compose

\* What getServiceSummary returns once the direct summary is known.
ServiceSummaryAfterDirect(mode, composeResult, container) ==
    IF mode = "container" THEN container
    ELSE ResolveAuto(ComposeSummary(mode, composeResult[1]), container)

\* Outputs of the docker CLI the resolver is run against.
StdoutSamples ==
    {<<>>, <<NL>>, <<"J1">>, <<"J1", NL>>, <<"J2", NL, "J1", NL>>, <<"J1", "J2">>,
     <<SP, "J3", CR, NL>>, <<"J4", NL>>}

InspectSamples ==
    {<<>>, <<"I1">>, <<SP, "I2", NL>>, <<"I3", NL>>, <<"J3">>, <<"I1", "I2">>}

StderrSamples == {<<>>, <<SP, NL>>, <<"e", "r", "r", NL>>}

ComposeResults == CommandResults(StdoutSamples, StderrSamples)
PsResults == CommandResults(StdoutSamples, StderrSamples)
InspectResults == CommandResults(InspectSamples, StderrSamples)

SumInit ==
    /\ sum_mode \in DockerModes
    /\ sum_pc = "start"
    /\ sum_calls = <<>>
    /\ sum_compose = <<>>
    /\ sum_ps = <<>>
    /\ sum_inspect = <<>>
    /\ sum_summary = <<>>

\* getServiceSummary is entered: the first docker call is issued.
SumStart ==
    /\ sum_pc = "start"
    /\ IF sum_mode = "container"
       THEN sum_calls' = <<"ps">> /\ sum_pc' = "awaitPs"
       ELSE sum_calls' = <<"compose ps">> /\ sum_pc' = "awaitCompose"
    /\ UNCHANGED <<sum_mode, sum_compose, sum_ps, sum_inspect, sum_summary>>
    /\ UNCHANGED notSumVars

\* "docker compose ps" returns.
SumComposeReturns ==
    /\ sum_pc = "awaitCompose"
    /\ \E r \in ComposeResults :
         /\ sum_compose' = <<r>>
         /\ IF sum_mode = "compose" \/ ComposeSummary(sum_mode, r).dockerAvailable
            THEN /\ sum_summary' = <<ComposeSummary(sum_mode, r)>>
                 /\ sum_pc' = "done"
                 /\ UNCHANGED sum_calls
            ELSE /\ sum_calls' = Append(sum_calls, "ps")
                 /\ sum_pc' = "awaitPs"
                 /\ UNCHANGED sum_summary
    /\ UNCHANGED <<sum_mode, sum_ps, sum_inspect>>
    /\ UNCHANGED notSumVars

\* "docker ps" returns.
SumPsReturns ==
    /\ sum_pc = "awaitPs"
    /\ \E r \in PsResults :
         /\ sum_ps' = <<r>>
         /\ IF NeedsInspect(r)
            THEN /\ sum_calls' = Append(sum_calls, "inspect")
                 /\ sum_pc' = "awaitInspect"
                 /\ UNCHANGED sum_summary
            ELSE /\ sum_summary' = <<ServiceSummaryAfterDirect(sum_mode, sum_compose,
                                        ContainerSummary(sum_mode, r, <<>>))>>
                 /\ sum_pc' = "done"
                 /\ UNCHANGED sum_calls
    /\ UNCHANGED <<sum_mode, sum_compose, sum_inspect>>
    /\ UNCHANGED notSumVars

\* "docker inspect" returns.
SumInspectReturns ==
    /\ sum_pc = "awaitInspect"
    /\ \E r \in InspectResults :
         /\ sum_inspect' = <<r>>
         /\ sum_summary' = <<ServiceSummaryAfterDirect(sum_mode, sum_compose,
                                 ContainerSummary(sum_mode, sum_ps[1], <<r>>))>>
    /\ sum_pc' = "done"
    /\ UNCHANGED <<sum_mode, sum_calls, sum_compose, sum_ps>>
    /\ UNCHANGED notSumVars

SumNext ==
    \/ SumStart
    \/ SumComposeReturns
    \/ SumPsReturns
    \/ SumInspectReturns

----------------------------------------------------------------------------
(* Action Dispatcher *)

\* Path suffixes of POST /api/container/<action>.
RawActionNames ==
    {"start", "stop", "restart", "RESTART", "constructor", "__proto__", "status", ""}

\* pathname.replace("/api/container/", "").trim().toLowerCase()
ActionOfPath(raw) == IF raw = "RESTART" THEN "restart" ELSE raw

\* actions[action] on the object literal {start, stop, restart}: an own
\* property gives its argument array; "constructor" and "__proto__" are found
\* on the prototype (the function Object, the object Object.prototype); any
\* other name gives undefined.
Lookup(action) ==
    CASE action \in {"start", "stop", "restart"} -> "array"
      [] action = "constructor" -> "function"
      [] action = "__proto__" -> "object"
      [] OTHER -> "undefined"

ComposeArgs(action) ==
    CASE action = "start" -> <<"compose", "-f", COMPOSE_FILE, "up", "-d", DEFAULT_SERVICE>>
      [] action = "stop" -> <<"compose", "-f", COMPOSE_FILE, "stop", DEFAULT_SERVICE>>
      [] OTHER -> <<"compose", "-f", COMPOSE_FILE, "restart", DEFAULT_SERVICE>>

DirectArgs(action) ==
    CASE action = "start" -> <<"start", TARGET_CONTAINER>>
      [] action = "stop" -> <<"stop", TARGET_CONTAINER>>
      [] OTHER -> <<"restart", TARGET_CONTAINER>>

\* What runComposeAction / runDirectContainerAction do with the action before
\* any await: "invalid" (if (!args) return the validation result), "spawn"
\* (runCommand spawns docker), or "throw" (spawn rejects a second argument that
\* is neither an array nor an object, inside the promise executor).
Attempt(action) ==
    CASE Lookup(action) = "undefined" -> "invalid"
      [] Lookup(action) = "function" -> "throw"
      [] OTHER -> "spawn"

\* The arguments docker is spawned with: the array looked up; none when the
\* value looked up is a plain object, which spawn takes for its options.
SpawnedArgs(backend, action) ==
    IF Lookup(action) # "array" THEN <<>>
    ELSE IF backend = "compose" THEN ComposeArgs(action)
    ELSE DirectArgs(action)

T_unsupported == <<"u", "n", "s", "u", "p", "p", "o", "r", "t", "e", "d">>
T_composeActionFailed == <<"c", "o", "m", "p", "o", "s", "e", SP, "a", "c", "t", "i", "o", "n">>
T_containerActionFailed == <<"c", "o", "n", "t", "a", "i", "n", "e", "r", SP, "a", "c", "t", "i", "o", "n">>

\* Every result record, with `fields` the properties it has; a property it
\* lacks (undefined) holds the value given here.
NoActionResult ==
    [fields |-> {}, ok |-> FALSE, backend |-> "", error |-> <<>>, code |-> 0,
     stdout |-> <<>>, stderr |-> <<>>, fallbackFrom |-> "", fallbackTried |-> "",
     fallbackError |-> <<>>]

\* { ok: false, error: "unsupported action", backend }
ValidationResult(backend) ==
    [NoActionResult EXCEPT !.fields = {"ok", "error", "backend"},
                           !.error = T_unsupported, !.backend = backend]

\* { ok, backend, code, stdout, stderr } from the command's result
CommandActionResult(backend, result) ==
    [NoActionResult EXCEPT !.fields = {"ok", "backend", "code", "stdout", "stderr"},
                           !.ok = (result.code = 0),
                           !.backend = backend,
                           !.code = result.code,
                           !.stdout = Trim(result.stdout),
                           !.stderr = Trim(result.stderr)]

\* runContainerAction in automatic mode once the compose attempt has failed and
\* the direct attempt has returned.
DispatchAutoDropsError(compose, direct) ==
    IF direct.ok THEN direct
    ELSE [compose EXCEPT
            !.fields = @ \cup {"fallbackTried", "fallbackError"},
            !.fallbackTried = "container",
            !.fallbackError = OrElse(direct.stderr,
                                OrElse(direct.stdout, T_containerActionFailed))]

DispatchAuto(compose, direct) ==
    IF direct.ok
    THEN [direct EXCEPT
            !.fields = @ \cup {"fallbackFrom", "fallbackError"},
            !.fallbackFrom = "compose",
            !.fallbackError = OrElse(compose.stderr,
                                OrElse(compose.stdout, T_composeActionFailed))]
    ELSE [compose EXCEPT
            !.fields = @ \cup {"fallbackTried", "fallbackError"},
            !.fallbackTried = "container",
            !.fallbackError = OrElse(direct.stderr,
                                OrElse(direct.stdout, T_containerActionFailed))]

\* sendJSON(res, result.ok ? 200 : 500, result)
StatusOf(result) == IF result.ok THEN 200 ELSE 500

ActionOutputs == {<<>>, <<"o", "k", NL>>}
ActionDiagnostics == {<<>>, <<SP>>, <<"e", "r", "r", NL>>}
ActionResults == CommandResults(ActionOutputs, ActionDiagnostics)

ActInit ==
    /\ act_mode \in DockerModes
    /\ act_action \in {ActionOfPath(raw) : raw \in RawActionNames}
    /\ act_pc = "start"
    /\ act_calls = <<>>
    /\ act_composeRes = <<>>
    /\ act_directRes = <<>>
    /\ act_result = <<>>
    /\ act_response = 0

\* The handler calls runContainerAction: the first backend is tried, up to
\* its first await.  In automatic mode a compose attempt that fails validation
\* is followed by the direct attempt, which fails it too.
ActStart ==
    /\ act_pc = "start"
    /\ LET first == IF act_mode = "container" THEN "container" ELSE "compose"
           auto == act_mode \notin {"compose", "container"}
           result == IF auto
                     THEN DispatchAuto(ValidationResult("compose"),
                                       ValidationResult("container"))
                     ELSE ValidationResult(first)
       IN  CASE Attempt(act_action) = "invalid" ->
                  /\ act_result' = <<result>>
                  /\ act_response' = StatusOf(result)
                  /\ act_pc' = "done"
                  /\ UNCHANGED act_calls
             [] Attempt(act_action) = "throw" ->
                  /\ act_pc' = "threw"
                  /\ UNCHANGED <<act_calls, act_result, act_response>>
             [] OTHER ->
                  /\ act_calls' = <<[backend |-> first,
                                     args |-> SpawnedArgs(first, act_action)]>>
                  /\ act_pc' = IF first = "compose" THEN "awaitCompose" ELSE "awaitDirect"
                  /\ UNCHANGED <<act_result, act_response>>
    /\ UNCHANGED <<act_mode, act_action, act_composeRes, act_directRes>>
    /\ UNCHANGED notActVars

\* The compose command returns.
ActComposeReturns ==
    /\ act_pc = "awaitCompose"
    /\ \E r \in ActionResults :
         LET compose == CommandActionResult("compose", r)
         IN  /\ act_composeRes' = <<r>>
             /\ IF act_mode = "compose" \/ compose.ok
                THEN /\ act_result' = <<compose>>
                     /\ act_response' = StatusOf(compose)
                     /\ act_pc' = "done"
                     /\ UNCHANGED act_calls
                ELSE /\ act_calls' = Append(act_calls,
                            [backend |-> "container",
                             args |-> SpawnedArgs("container", act_action)])
                     /\ act_pc' = "awaitDirect"
                     /\ UNCHANGED <<act_result, act_response>>
    /\ UNCHANGED <<act_mode, act_action, act_directRes>>
    /\ UNCHANGED notActVars

\* The direct command returns.
ActDirectReturns ==
    /\ act_pc = "awaitDirect"
    /\ \E r \in ActionResults :
         LET direct == CommandActionResult("container", r)
             result == IF act_mode = "container" THEN direct
                       ELSE DispatchAuto(
                              CommandActionResult("compose", act_composeRes[1]), direct)
         IN  /\ act_directRes' = <<r>>
             /\ act_result' = <<result>>
             /\ act_response' = StatusOf(result)
    /\ act_pc' = "done"
    /\ UNCHANGED <<act_mode, act_action, act_calls, act_composeRes>>
    /\ UNCHANGED notActVars

ActNext ==
    \/ ActStart
    \/ ActComposeReturns
    \/ ActDirectReturns

----------------------------------------------------------------------------
(* Log Stream Multiplexer *)

\* All sequences over `alphabet` of length at most n.
SeqsUpTo(alphabet, n) == UNION {[1..k -> alphabet] : k \in 0..n}

\* What the child prints: stdout is valid UTF-8 over "a", line feed, carriage
\* return and one two-byte character; stderr is text over "b" and line feed.
StdoutOutputs ==
    {bytes \in SeqsUpTo({"a", NL, CR, LeadByte, ContByte}, MaxStdoutBytes) :
        \A i \in 1..Len(Utf8Decode(bytes)) : Utf8Decode(bytes)[i] # Replacement}

StderrOutputs == SeqsUpTo({"b", NL}, MaxStderrBytes)

\* Operations on res.
ConnectedOp == [op |-> "write", frame |-> "connected", kind |-> "", line |-> <<>>]
PingOp == [op |-> "write", frame |-> "ping", kind |-> "", line |-> <<>>]
EndOp == [op |-> "end", frame |-> "", kind |-> "", line |-> <<>>]

\* writeLine(line, kind): one "data:" frame carrying {kind, line, ts}.
writeLine(line, kind) == [op |-> "write", frame |-> "data", kind |-> kind, line |-> line]

\* flushChunk(chunk, kind) on the buffer: the new buffer and the frames written.
flushChunk(buffer, chunk, kind) ==
    LET text == buffer \o Utf8Decode(chunk)
        parts == SplitLines(text)
        lines == SelectSeq(SubSeq(parts, 1, Len(parts) - 1), LAMBDA line : line # <<>>)
    IN  [buffer |-> parts[Len(parts)],
         writes |-> [i \in 1..Len(lines) |-> writeLine(lines[i], kind)]]

T_streamEnded == <<"e", "n", "d", "e", "d", SP>>
T_failedToStart == <<"f", "a", "i", "l", "e", "d", SP>>

\* `log stream ended (exit code ${code ?? "unknown"})`
StatusLine(code) ==
    T_streamEnded \o (IF code = <<>> THEN S_unknown ELSE <<ToString(code[1])>>)

\* The 'close' handler: what it does to res, in order.
CloseWritesStatusFirst(buffer, code) ==
    <<writeLine(StatusLine(code), "status")>>
    \o (IF Trim(buffer) # <<>> THEN <<writeLine(Trim(buffer), "log")>> ELSE <<>>)
    \o <<EndOp>>

CloseWrites(buffer, code) ==
    (IF Trim(buffer) # <<>> THEN <<writeLine(Trim(buffer), "log")>> ELSE <<>>)
    \o <<writeLine(StatusLine(code), "status"), EndOp>>

\* The 'error' handler.
ErrorWrites(message) == <<writeLine(T_failedToStart \o message, "error"), EndOp>>

\* cleanup: whether child.kill("SIGTERM") is called and sends the signal.  kill
\* reaches only a child process that has not ended, and then sets child.killed.
CleanupKillsUnguarded(child, killed) == child = "alive"

CleanupKills(child, killed) == ~killed /\ child = "alive"

LogInit ==
    /\ log_child \in {"alive", "failed"}
    /\ log_stdoutRest \in (IF log_child = "alive" THEN StdoutOutputs ELSE {<<>>})
    /\ log_stderrRest \in (IF log_child = "alive" THEN StderrOutputs ELSE {<<>>})
    /\ log_stdoutSent = <<>>
    /\ log_stderrSent = <<>>
    /\ log_buffer = <<>>
    /\ log_out = <<ConnectedOp>>
    /\ log_exitCode = <<>>
    /\ log_killed = FALSE
    /\ log_signals = 0
    /\ log_heartbeat = TRUE
    /\ log_reqEvents = {}

\* child.stdout.on("data"): the next chunk, of any length, of the output.
LogStdoutData ==
    /\ log_child \in {"alive", "exited"}
    /\ \E n \in 1..Len(log_stdoutRest) :
         LET chunk == SubSeq(log_stdoutRest, 1, n)
             done == flushChunk(log_buffer, chunk, "log")
         IN  /\ log_stdoutRest' = SubSeq(log_stdoutRest, n + 1, Len(log_stdoutRest))
             /\ log_stdoutSent' = log_stdoutSent \o chunk
             /\ log_buffer' = done.buffer
             /\ log_out' = log_out \o done.writes
    /\ UNCHANGED <<log_stderrRest, log_stderrSent, log_child, log_exitCode, log_killed,
                   log_signals, log_heartbeat, log_reqEvents>>
    /\ UNCHANGED notLogVars

\* child.stderr.on("data")
LogStderrData ==
    /\ log_child \in {"alive", "exited"}
    /\ \E n \in 1..Len(log_stderrRest) :
         LET chunk == SubSeq(log_stderrRest, 1, n)
             done == flushChunk(log_buffer, chunk, "error")
         IN  /\ log_stderrRest' = SubSeq(log_stderrRest, n + 1, Len(log_stderrRest))
             /\ log_stderrSent' = log_stderrSent \o chunk
             /\ log_buffer' = done.buffer
             /\ log_out' = log_out \o done.writes
    /\ UNCHANGED <<log_stdoutRest, log_stdoutSent, log_child, log_exitCode, log_killed,
                   log_signals, log_heartbeat, log_reqEvents>>
    /\ UNCHANGED notLogVars

\* The child process ends, by itself with an exit code or killed by SIGTERM.
\* What it had not printed yet is never printed; what it had printed is
\* still delivered before 'close'.
LogChildExit ==
    /\ log_child = "alive"
    /\ \/ \E c \in {0, 1} : log_exitCode' = <<c>>
       \/ log_signals > 0 /\ log_exitCode' = <<>>
    /\ \/ UNCHANGED <<log_stdoutRest, log_stderrRest>>
       \/ log_stdoutRest' = <<>> /\ log_stderrRest' = <<>>
    /\ log_child' = "exited"
    /\ UNCHANGED <<log_stdoutSent, log_stderrSent, log_buffer, log_out, log_killed,
                   log_signals, log_heartbeat, log_reqEvents>>
    /\ UNCHANGED notLogVars

\* child.on("close"): after the process ended and both streams were read to
\* their end; also after a spawn failure's 'error'.
LogClose ==
    /\ log_child \in {"exited", "errored"}
    /\ log_stdoutRest = <<>>
    /\ log_stderrRest = <<>>
    /\ log_child' = "closed"
    /\ log_out' = log_out \o CloseWrites(log_buffer, log_exitCode)
    /\ log_buffer' = IF Trim(log_buffer) # <<>> THEN <<>> ELSE log_buffer
    /\ UNCHANGED <<log_stdoutRest, log_stderrRest, log_stdoutSent, log_stderrSent,
                   log_exitCode, log_killed, log_signals, log_heartbeat, log_reqEvents>>
    /\ UNCHANGED notLogVars

\* child.on("error"): the spawn failed.
LogError ==
    /\ log_child = "failed"
    /\ log_child' = "errored"
    /\ log_exitCode' = <<SpawnErrno>>
    /\ log_out' = log_out \o ErrorWrites(SpawnErrorMessage)
    /\ UNCHANGED <<log_stdoutRest, log_stderrRest, log_stdoutSent, log_stderrSent,
                   log_buffer, log_killed, log_signals, log_heartbeat, log_reqEvents>>
    /\ UNCHANGED notLogVars

PingCount(out) == Len(SelectSeq(out, LAMBDA o : o.frame = "ping"))

\* The variant whose tick is skipped while a partial line is buffered.
LogHeartbeatWhenQuiet ==
    /\ log_heartbeat
    /\ log_buffer = <<>>
    /\ PingCount(log_out) < MaxPings
    /\ log_out' = Append(log_out, PingOp)
    /\ UNCHANGED <<log_stdoutRest, log_stderrRest, log_stdoutSent, log_stderrSent,
                   log_buffer, log_child, log_exitCode, log_killed, log_signals,
                   log_heartbeat, log_reqEvents>>
    /\ UNCHANGED notLogVars

\* The setInterval callback.
LogHeartbeat ==
    /\ log_heartbeat
    /\ PingCount(log_out) < MaxPings
    /\ log_out' = Append(log_out, PingOp)
    /\ UNCHANGED <<log_stdoutRest, log_stderrRest, log_stdoutSent, log_stderrSent,
                   log_buffer, log_child, log_exitCode, log_killed, log_signals,
                   log_heartbeat, log_reqEvents>>
    /\ UNCHANGED notLogVars

\* req.on("close", cleanup) and req.on("aborted", cleanup): each event fires
\* at most once, 'aborted' never after 'close'.
LogReqEvent ==
    /\ \E e \in {"close", "aborted"} \ log_reqEvents :
         /\ e = "aborted" => "close" \notin log_reqEvents
         /\ log_reqEvents' = log_reqEvents \cup {e}
    /\ log_heartbeat' = FALSE
    /\ IF CleanupKills(log_child, log_killed)
       THEN log_killed' = TRUE /\ log_signals' = log_signals + 1
       ELSE UNCHANGED <<log_killed, log_signals>>
    /\ UNCHANGED <<log_stdoutRest, log_stderrRest, log_stdoutSent, log_stderrSent,
                   log_buffer, log_out, log_child, log_exitCode>>
    /\ UNCHANGED notLogVars

LogNext ==
    \/ LogStdoutData
    \/ LogStderrData
    \/ LogChildExit
    \/ LogClose
    \/ LogError
    \/ LogHeartbeat
    \/ LogReqEvent

----------------------------------------------------------------------------
(* Provider normalisation *)

MaxFragments == 2
MaxFiles == 2
MaxModels == 2

P_proxyAccess == <<"p", "r", "o", "x", "y", "-", "a", "c", "c", "e", "s", "s">>
P_claude == <<"c", "l", "a", "u", "d", "e">>
P_codex == <<"c", "o", "d", "e", "x">>
P_gemini == <<"g", "e", "m", "i", "n", "i">>
P_qwen == <<"q", "w", "e", "n">>
P_iflow == <<"i", "f", "l", "o", "w">>
P_openaiCompat == <<"o", "p", "e", "n", "a", "i", "-", "c", "o", "m", "p", "a", "t">>
P_unknown == S_unknown

PROVIDER_ORDER ==
    <<P_proxyAccess, P_claude, P_codex, P_gemini, P_qwen, P_iflow, P_openaiCompat,
      P_unknown>>

K_proxy == <<"p", "r", "o", "x", "y">>
K_apiKeysDash == <<"a", "p", "i", "-", "k", "e", "y", "s">>
K_apiKeysUnderscore == <<"a", "p", "i", "_", "k", "e", "y", "s">>
K_anthropic == <<"a", "n", "t", "h", "r", "o", "p", "i", "c">>
K_openai == <<"o", "p", "e", "n", "a", "i">>
K_gpt == <<"g", "p", "t">>
K_compat == <<"c", "o", "m", "p", "a", "t">>
K_openrouter == <<"o", "p", "e", "n", "r", "o", "u", "t", "e", "r">>

normalizeProviderName(raw) ==
    LET value == ToLowerCase(Trim(raw))
    IN  IF value = <<>> THEN P_unknown
        ELSE IF \/ Includes(value, K_proxy)
                \/ value = K_apiKeysDash
                \/ value = K_apiKeysUnderscore THEN P_proxyAccess
        ELSE IF Includes(value, P_claude) \/ Includes(value, K_anthropic) THEN P_claude
        ELSE IF \/ Includes(value, P_codex)
                \/ Includes(value, K_openai)
                \/ value = K_gpt THEN P_codex
        ELSE IF Includes(value, P_gemini) THEN P_gemini
        ELSE IF Includes(value, P_qwen) THEN P_qwen
        ELSE IF Includes(value, P_iflow) THEN P_iflow
        ELSE IF Includes(value, K_compat) \/ Includes(value, K_openrouter)
             THEN P_openaiCompat
        ELSE value

inferProviderFromFileName(fileName) == normalizeProviderName(fileName)

\* Pieces provider hints are made of: the keywords of the rules, a model
\* name, an unrelated word, upper-case letters and white space.
HintFragments ==
    {K_proxy, K_apiKeysDash, P_claude, K_anthropic, P_codex, K_openai, K_gpt,
     <<"G", "P", "T">>, <<"g", "p", "t", "-", "4">>, P_gemini, P_qwen, P_iflow,
     K_compat, K_openrouter, <<"x">>, <<SP>>, <<"-">>}

RECURSIVE Concat(_)
Concat(parts) == IF parts = <<>> THEN <<>> ELSE Head(parts) \o Concat(Tail(parts))

ProviderHints ==
    {Concat(parts) : parts \in SeqsUpTo(HintFragments, MaxFragments)}

NpInit ==
    /\ np_raw \in ProviderHints
    /\ np_pc = "start"
    /\ np_provider = <<>>
    /\ np_group = <<>>

\* readAuthFiles: provider = normalizeProviderName(hint)
NpRead ==
    /\ np_pc = "start"
    /\ np_provider' = normalizeProviderName(np_raw)
    /\ np_pc' = "read"
    /\ UNCHANGED <<np_raw, np_group>>
    /\ UNCHANGED notNpVars

\* buildProviderHealth: the key is normalizeProviderName(file.provider || "unknown")
NpGroup ==
    /\ np_pc = "read"
    /\ np_group' = normalizeProviderName(OrElse(np_provider, P_unknown))
    /\ np_pc' = "grouped"
    /\ UNCHANGED <<np_raw, np_provider>>
    /\ UNCHANGED notNpVars

NpNext ==
    \/ NpRead
    \/ NpGroup

----------------------------------------------------------------------------
(* Credential Freshness Evaluator *)

\* Instants and durations are counted in seconds (the source counts
\* milliseconds; every threshold is a whole number of seconds).  A timestamp
\* field holds "" (here <<>>) or the ISO text of an instant t (here <<t>>);
\* Date.parse gives NaN (here <<>>) for "" and t for the ISO text of t.
Minute == 60
Day == 24 * 60 * 60
Now == 40 * Day

DateParse(text) == IF text = <<>> THEN <<>> ELSE <<text[1]>>

IsFinite(number) == number # <<>>

FRESHNESS_SEVERITY(level) ==
    CASE level = "missing" -> 0
      [] level = "configured" -> 1
      [] level = "fresh" -> 2
      [] level = "unknown" -> 3
      [] level = "warning" -> 4
      [] level = "stale" -> 5
      [] level = "expired" -> 6
      [] level = "error" -> 7
      [] OTHER -> 0

NoDuration == [form |-> "", days |-> 0, hours |-> 0, minutes |-> 0, seconds |-> 0]

humanizeDurationMs(ms) ==
    LET abs == IF ms < 0 THEN -ms ELSE ms
        totalMinutes == (abs + 30) \div Minute
        days == totalMinutes \div 1440
        hours == (totalMinutes % 1440) \div 60
        minutes == totalMinutes % 60
    IN  IF days > 0
        THEN [NoDuration EXCEPT !.form = "d h", !.days = days, !.hours = hours]
        ELSE IF hours > 0
        THEN [NoDuration EXCEPT !.form = "h m", !.hours = hours, !.minutes = minutes]
        ELSE IF minutes > 0
        THEN [NoDuration EXCEPT !.form = "m", !.minutes = minutes]
        ELSE [NoDuration EXCEPT !.form = "s",
                                !.seconds = IF abs > 1 THEN abs ELSE 1]

Evaluation(level, text, duration, expiresInMs) ==
    [level |-> level, message |-> [text |-> text, duration |-> duration],
     expiresInMs |-> expiresInMs]

\* The branch taken on a finite expiry, on a finite last refresh and on a
\* finite modification time.
ExpiryEvaluationLate(delta) ==
    IF delta < 0
    THEN Evaluation("expired", "Expired ... ago", humanizeDurationMs(delta), <<delta>>)
    ELSE IF delta < Day
    THEN Evaluation("warning", "Expires in ...", humanizeDurationMs(delta), <<delta>>)
    ELSE Evaluation("fresh", "Valid for ...", humanizeDurationMs(delta), <<delta>>)

ExpiryEvaluationNoWarning(delta) ==
    IF delta <= 0
    THEN Evaluation("expired", "Expired ... ago", humanizeDurationMs(delta), <<delta>>)
    ELSE Evaluation("fresh", "Valid for ...", humanizeDurationMs(delta), <<delta>>)

ExpiryEvaluation(delta) ==
    IF delta <= 0
    THEN Evaluation("expired", "Expired ... ago", humanizeDurationMs(delta), <<delta>>)
    ELSE IF delta <= Day
    THEN Evaluation("warning", "Expires in ...", humanizeDurationMs(delta), <<delta>>)
    ELSE Evaluation("fresh", "Valid for ...", humanizeDurationMs(delta), <<delta>>)

RefreshEvaluation(age) ==
    IF age <= 7 * Day
    THEN Evaluation("fresh", "Refreshed ... ago", humanizeDurationMs(age), <<>>)
    ELSE IF age <= 30 * Day
    THEN Evaluation("warning", "Refresh is ... old", humanizeDurationMs(age), <<>>)
    ELSE Evaluation("stale", "Refresh is stale (... old)", humanizeDurationMs(age), <<>>)

ModifiedEvaluation(age) ==
    IF age <= 30 * Day
    THEN Evaluation("unknown", "No expiry metadata, file updated ... ago",
                    humanizeDurationMs(age), <<>>)
    ELSE Evaluation("stale", "No expiry metadata and file is old (...)",
                    humanizeDurationMs(age), <<>>)

evaluateRefreshFirst(file, nowMs) ==
    LET expiryMs == DateParse(file.expiresAt)
        refreshMs == DateParse(file.lastRefresh)
        modifiedMs == DateParse(file.modifiedAt)
    IN  IF file.parseError # ""
        THEN Evaluation("error", "Token file cannot be parsed", NoDuration, <<>>)
        ELSE IF IsFinite(refreshMs) THEN RefreshEvaluation(nowMs - refreshMs[1])
        ELSE IF IsFinite(expiryMs) THEN ExpiryEvaluation(expiryMs[1] - nowMs)
        ELSE IF IsFinite(modifiedMs) THEN ModifiedEvaluation(nowMs - modifiedMs[1])
        ELSE Evaluation("unknown", "No expiry metadata", NoDuration, <<>>)

evaluateOAuthFileFreshness(file, nowMs) ==
    LET expiryMs == DateParse(file.expiresAt)
        refreshMs == DateParse(file.lastRefresh)
        modifiedMs == DateParse(file.modifiedAt)
    IN  IF file.parseError # ""
        THEN Evaluation("error", "Token file cannot be parsed", NoDuration, <<>>)
        ELSE IF IsFinite(expiryMs) THEN ExpiryEvaluation(expiryMs[1] - nowMs)
        ELSE IF IsFinite(refreshMs) THEN RefreshEvaluation(nowMs - refreshMs[1])
        ELSE IF IsFinite(modifiedMs) THEN ModifiedEvaluation(nowMs - modifiedMs[1])
        ELSE Evaluation("unknown", "No expiry metadata", NoDuration, <<>>)

\* The keys of the staticCounts object getAuthMechanisms passes.
StaticKeys ==
    {P_proxyAccess, P_gemini, P_claude, P_codex, P_openaiCompat, P_qwen, P_iflow}

\* Number(staticCounts[provider] || 0)
StaticKeyCount(staticCounts, provider) ==
    IF provider \in DOMAIN staticCounts THEN staticCounts[provider] ELSE 0

GroupKey(file) == normalizeProviderName(OrElse(file.provider, P_unknown))

Grouped(oauthFiles, provider) ==
    SelectSeq(oauthFiles, LAMBDA file : GroupKey(file) = provider)

\* a.localeCompare(b) < 0 for names over the characters listed, which
\* collate in this order.
CollationOrder ==
    <<"-", "/", "1", "3", "4", "a", "b", "c", "d", "e", "f", "g", "h", "i", "j", "k",
      "l", "m", "n", "o", "p", "q", "r", "s", "t", "u", "v", "w", "x", "y", "z">>

CharRank(c) == CHOOSE i \in 1..Len(CollationOrder) : CollationOrder[i] = c

RECURSIVE LocaleLess(_, _)
LocaleLess(a, b) ==
    IF a = <<>> THEN b # <<>>
    ELSE IF b = <<>> THEN FALSE
    ELSE IF Head(a) = Head(b) THEN LocaleLess(Tail(a), Tail(b))
    ELSE CharRank(Head(a)) < CharRank(Head(b))

RECURSIVE SortNames(_)
SortNames(names) ==
    IF names = {} THEN <<>>
    ELSE LET least == CHOOSE a \in names : \A b \in names \ {a} : LocaleLess(a, b)
         IN  <<least>> \o SortNames(names \ {least})

\* [...providers].sort(...): PROVIDER_ORDER first, the other names after it.
OrderedProviders(oauthFiles, staticCounts) ==
    LET known == {PROVIDER_ORDER[i] : i \in 1..Len(PROVIDER_ORDER)}
        providers == known \cup DOMAIN staticCounts
                        \cup {GroupKey(oauthFiles[i]) : i \in 1..Len(oauthFiles)}
    IN  PROVIDER_ORDER \o SortNames(providers \ known)

\* The loop over evaluations that keeps the first candidate of the greatest
\* severity.
RECURSIVE WorstFrom(_, _, _)
WorstFrom(evaluations, i, worst) ==
    IF i > Len(evaluations) THEN worst
    ELSE WorstFrom(evaluations, i + 1,
            IF FRESHNESS_SEVERITY(evaluations[i].level) > FRESHNESS_SEVERITY(worst.level)
            THEN evaluations[i] ELSE worst)

\* The finite values of a list of parsed timestamps.
FiniteValues(numbers) ==
    LET finite == SelectSeq(numbers, IsFinite)
    IN  [i \in 1..Len(finite) |-> finite[i][1]]

MinOf(values) == CHOOSE v \in {values[i] : i \in 1..Len(values)} :
                    \A j \in 1..Len(values) : v <= values[j]

MaxOf(values) == CHOOSE v \in {values[i] : i \in 1..Len(values)} :
                    \A j \in 1..Len(values) : v >= values[j]

\* One pass of the loop over orderedProviders.  (label is not modelled.)
ProviderEntry(provider, oauthFiles, staticCounts, nowMs) ==
    LET oauthEntries == Grouped(oauthFiles, provider)
        staticKeyCount == StaticKeyCount(staticCounts, provider)
        evaluations == [i \in 1..Len(oauthEntries) |->
                           evaluateOAuthFileFreshness(oauthEntries[i], nowMs)]
        worst == WorstFrom(evaluations, 1, evaluations[1])
        expiryValues == FiniteValues([i \in 1..Len(oauthEntries) |->
                                         DateParse(oauthEntries[i].expiresAt)])
        refreshValues == FiniteValues([i \in 1..Len(oauthEntries) |->
                            DateParse(OrElse(oauthEntries[i].lastRefresh,
                                             oauthEntries[i].modifiedAt))])
    IN  [provider |-> provider,
         status |-> IF Len(oauthEntries) > 0 THEN worst.level
                    ELSE IF staticKeyCount > 0 THEN "configured" ELSE "missing",
         statusMessage |->
             IF Len(oauthEntries) > 0 THEN worst.message
             ELSE IF staticKeyCount > 0
             THEN [text |-> "... static API key(s) configured", duration |-> NoDuration]
             ELSE [text |-> "No credentials configured", duration |-> NoDuration],
         authMode |-> IF Len(oauthEntries) > 0 /\ staticKeyCount > 0 THEN "mixed"
                      ELSE IF Len(oauthEntries) > 0 THEN "oauth"
                      ELSE IF staticKeyCount > 0 THEN "api-keys" ELSE "none",
         oauthCount |-> Len(oauthEntries),
         staticKeyCount |-> staticKeyCount,
         expiredCount |-> Len(SelectSeq(expiryValues, LAMBDA ts : ts <= nowMs)),
         expiringSoonCount |->
             Len(SelectSeq(expiryValues, LAMBDA ts : ts > nowMs /\ ts <= nowMs + Day)),
         parseErrors |-> Len(SelectSeq(oauthEntries, LAMBDA entry : entry.parseError # "")),
         soonestExpiry |-> IF Len(expiryValues) > 0 THEN <<MinOf(expiryValues)>> ELSE <<>>,
         latestRefresh |-> IF Len(refreshValues) > 0 THEN <<MaxOf(refreshValues)>> ELSE <<>>]

buildProviderHealth(oauthFiles, staticCounts, nowMs) ==
    LET orderedProviders == OrderedProviders(oauthFiles, staticCounts)
    IN  [i \in 1..Len(orderedProviders) |->
            ProviderEntry(orderedProviders[i], oauthFiles, staticCounts, nowMs)]

\* The record readAuthFiles pushes for a file that parses, and for one that
\* does not.
ParsedFile(hint, expiresAt, lastRefresh, modifiedAt) ==
    [provider |-> normalizeProviderName(hint), expiresAt |-> expiresAt,
     lastRefresh |-> lastRefresh, modifiedAt |-> modifiedAt, parseError |-> ""]

UnparsedFile(fileName, modifiedAt) ==
    [provider |-> inferProviderFromFileName(fileName), expiresAt |-> <<>>,
     lastRefresh |-> <<>>, modifiedAt |-> modifiedAt,
     parseError |-> "Unexpected token"]

\* Type hints and file names of the credential files.
FileHints == {P_claude, P_codex, K_openrouter, <<"g", "p", "t", "-", "4">>}

ExpirySamples == {<<Now - 1>>, <<Now>>, <<Now + 1>>, <<Now + Day>>, <<Now + Day + 1>>}

RefreshSamples ==
    {<<Now - 7 * Day>>, <<Now - 7 * Day - 1>>, <<Now - 30 * Day>>,
     <<Now - 30 * Day - 1>>}

ModifiedSamples == {<<Now - 30 * Day>>, <<Now - 30 * Day - 1>>}

OldOrNone == {<<>>, <<Now - 30 * Day - 1>>}

FileRecords ==
    {ParsedFile(h, e, r, m) : h \in FileHints, e \in ExpirySamples,
                              r \in OldOrNone, m \in OldOrNone}
    \cup {ParsedFile(h, <<>>, r, m) : h \in FileHints, r \in RefreshSamples,
                                     m \in OldOrNone}
    \cup {ParsedFile(h, <<>>, <<>>, m) : h \in FileHints,
                                       m \in ModifiedSamples \cup {<<>>}}
    \cup {UnparsedFile(h, m) : h \in FileHints, m \in {<<>>, <<Now>>}}

NoStaticKeys == [provider \in StaticKeys |-> 0]

StaticSamples ==
    {NoStaticKeys,
     [NoStaticKeys EXCEPT ![P_claude] = 2, ![P_openaiCompat] = 1]}

HlInit ==
    /\ hl_pc = "read"
    /\ hl_files = <<>>
    /\ hl_static \in StaticSamples
    /\ hl_evals = <<>>
    /\ hl_output = <<>>

\* readAuthFiles: the next file of the directory, in file-name order
HlReadFile ==
    /\ hl_pc = "read"
    /\ Len(hl_files) < MaxFiles
    /\ \E file \in FileRecords : hl_files' = Append(hl_files, file)
    /\ UNCHANGED <<hl_pc, hl_static, hl_evals, hl_output>>
    /\ UNCHANGED notHlVars

\* getAuthMechanisms: buildProviderHealth(oauthFiles, staticCounts)
HlBuild ==
    /\ hl_pc = "read"
    /\ hl_evals' = [i \in 1..Len(hl_files) |->
                      evaluateOAuthFileFreshness(hl_files[i], Now)]
    /\ hl_output' = buildProviderHealth(hl_files, hl_static, Now)
    /\ hl_pc' = "built"
    /\ UNCHANGED <<hl_files, hl_static>>
    /\ UNCHANGED notHlVars

HlNext ==
    \/ HlReadFile
    \/ HlBuild

----------------------------------------------------------------------------
(* Provider Model Aggregator *)

K_modelsPrefix == <<"m", "o", "d", "e", "l", "s", "/">>

normalizeModelID(raw) ==
    LET trimmed == Trim(raw)
    IN  IF trimmed = <<>> THEN <<>>
        ELSE IF StartsWith(trimmed, K_modelsPrefix)
        THEN SubSeq(trimmed, Len(K_modelsPrefix) + 1, Len(trimmed))
        ELSE trimmed

\* The variant that looks at the model id before the owner hint.
inferProviderIdFirst(modelID, ownedBy) ==
    LET owner == normalizeProviderName(ownedBy)
        id == ToLowerCase(Trim(modelID))
    IN  IF Includes(id, P_claude) THEN P_claude
        ELSE IF Includes(id, P_gemini) THEN P_gemini
        ELSE IF Includes(id, P_qwen) THEN P_qwen
        ELSE IF Includes(id, P_iflow) THEN P_iflow
        ELSE IF Includes(id, K_gpt) \/ Includes(id, P_codex) THEN P_codex
        ELSE owner

inferProviderFromModel(modelID, ownedBy) ==
    LET owner == normalizeProviderName(ownedBy)
        id == ToLowerCase(Trim(modelID))
    IN  IF owner \notin {P_unknown, P_proxyAccess, P_openaiCompat} THEN owner
        ELSE IF id = <<>> THEN P_unknown
        ELSE IF Includes(id, P_claude) THEN P_claude
        ELSE IF Includes(id, P_gemini) THEN P_gemini
        ELSE IF Includes(id, P_qwen) THEN P_qwen
        ELSE IF Includes(id, P_iflow) THEN P_iflow
        ELSE IF \/ Includes(id, K_gpt)
                \/ Includes(id, <<"o", "1">>)
                \/ Includes(id, <<"o", "3">>)
                \/ Includes(id, <<"o", "4">>)
                \/ Includes(id, P_codex)
                \/ Includes(id, <<"c", "h", "a", "t", "g", "p", "t">>) THEN P_codex
        ELSE IF owner # P_unknown THEN owner ELSE P_unknown

\* What one HTTP exchange comes to: fetch rejects (network failure, abort
\* by the timer), or a response with a status and a body.  A body is its
\* text and what JSON.parse makes of it (<<>>: it throws).  A payload is
\* [error, message, data, models]: error is [kind, message, text] with kind
\* "absent", "string" or "object"; data and models are <<>> (not an array)
\* or <<list of records>>.
NoError == [kind |-> "absent", message |-> "", text |-> ""]

NoPayload == [error |-> NoError, message |-> "", data |-> <<>>, models |-> <<>>]

\* payload.error?.message || payload.error || payload.message, then String(...)
PayloadErrorText(payload) ==
    IF payload.error.kind = "object" /\ payload.error.message # ""
    THEN payload.error.message
    ELSE IF payload.error.kind = "string" /\ payload.error.text # ""
    THEN payload.error.text
    ELSE IF payload.error.kind = "object" THEN "[object Object]"
    ELSE payload.message

\* `upstream returned ${response.status}`
UpstreamReturned(status) == IF status = 500 THEN "upstream returned 500"
                            ELSE "upstream returned 503"

fetchProxyJSON(exchange) ==
    IF exchange.kind # "response"
    THEN [ok |-> FALSE, status |-> 0, error |-> exchange.message, data |-> <<>>]
    ELSE LET text == exchange.body.text
             payload == IF text = "" THEN <<>> ELSE exchange.body.parsed
             fromPayload == IF payload = <<>> THEN "" ELSE PayloadErrorText(payload[1])
             errMessage == IF fromPayload # "" THEN fromPayload
                           ELSE IF text # "" THEN text
                           ELSE UpstreamReturned(exchange.status)
         IN  IF exchange.status \notin 200..299
             THEN [ok |-> FALSE, status |-> exchange.status, error |-> errMessage,
                   data |-> payload]
             ELSE [ok |-> TRUE, status |-> exchange.status, error |-> "",
                   data |-> payload]

\* collect(provider, modelID, displayName, source, ownedBy) on the entries
\* Map, kept as the sequence of its values in insertion order.
collect(entries, provider, modelID, displayName, source, ownedBy) ==
    LET normalizedID == normalizeModelID(modelID)
        hits == {i \in 1..Len(entries) :
                    entries[i].provider = provider /\ entries[i].id = normalizedID}
    IN  IF normalizedID = <<>> THEN entries
        ELSE IF hits # {}
        THEN [i \in 1..Len(entries) |->
                 IF i \in hits
                 THEN [entries[i] EXCEPT
                         !.sources = @ \cup {source},
                         !.displayName = IF @ = <<>> /\ displayName # <<>>
                                         THEN displayName ELSE @]
                 ELSE entries[i]]
        ELSE Append(entries, [provider |-> provider, id |-> normalizedID,
                              displayName |-> Trim(displayName),
                              ownedBy |-> Trim(ownedBy), sources |-> {source}])

\* A record of either listing: the fields it lacks are empty.
NoModel == [id |-> <<>>, name |-> <<>>, owned_by |-> <<>>, display_name |-> <<>>,
            displayName |-> <<>>]

\* The loop over openaiModelsResp.data.data
RECURSIVE CollectOpenai(_, _)
CollectOpenai(entries, models) ==
    IF models = <<>> THEN entries
    ELSE LET model == Head(models)
             provider == inferProviderFromModel(model.id, model.owned_by)
         IN  CollectOpenai(collect(entries, provider, model.id, model.display_name,
                                   "openai", model.owned_by),
                           Tail(models))

\* The loop over geminiModelsResp.data.models
RECURSIVE CollectGemini(_, _)
CollectGemini(entries, models) ==
    IF models = <<>> THEN entries
    ELSE LET model == Head(models)
             id == OrElse(model.name, model.id)
             provider == inferProviderFromModel(id, model.owned_by)
         IN  CollectGemini(collect(entries, provider, id,
                                   OrElse(model.displayName, model.display_name),
                                   "gemini", model.owned_by),
                           Tail(models))

\* resp.ok && resp.data && Array.isArray(resp.data.data), and the array
ListedOpenai(resp) ==
    IF resp.ok /\ resp.data # <<>> /\ resp.data[1].data # <<>>
    THEN resp.data[1].data ELSE <<>>

ListedGemini(resp) ==
    IF resp.ok /\ resp.data # <<>> /\ resp.data[1].models # <<>>
    THEN resp.data[1].models ELSE <<>>

ModelEntries(openaiModelsResp, geminiModelsResp) ==
    LET openaiList == ListedOpenai(openaiModelsResp)
        geminiList == ListedGemini(geminiModelsResp)
        afterOpenai == IF openaiList = <<>> THEN <<>>
                       ELSE CollectOpenai(<<>>, openaiList[1])
    IN  IF geminiList = <<>> THEN afterOpenai
        ELSE CollectGemini(afterOpenai, geminiList[1])

\* [...item.sources].sort()
SortedSources(sources) ==
    IF sources = {"openai", "gemini"} THEN <<"gemini", "openai">>
    ELSE IF sources = {"openai"} THEN <<"openai">>
    ELSE <<"gemini">>

\* list.sort((a, b) => a.id.localeCompare(b.id))
RECURSIVE SortModels(_)
SortModels(models) ==
    IF models = <<>> THEN <<>>
    ELSE LET least == CHOOSE i \in 1..Len(models) :
                 \A j \in 1..Len(models) :
                     j # i => (\/ LocaleLess(models[i].id, models[j].id)
                               \/ (models[i].id = models[j].id /\ i < j))
         IN  <<models[least]>>
                 \o SortModels([k \in 1..(Len(models) - 1) |->
                                  IF k < least THEN models[k] ELSE models[k + 1]])

\* [...byProvider.keys()].sort(sortProviders)
SortedProviders(names) ==
    SelectSeq(PROVIDER_ORDER, LAMBDA name : name \in names)
        \o SortNames(names \ {PROVIDER_ORDER[i] : i \in 1..Len(PROVIDER_ORDER)})

\* The providerModels list.  (label is not modelled.)
ProviderModels(entries) ==
    LET providers == SortedProviders({entries[i].provider : i \in 1..Len(entries)})
        ModelsOf(provider) ==
            LET items == SelectSeq(entries, LAMBDA item : item.provider = provider)
            IN  SortModels([i \in 1..Len(items) |->
                              [id |-> items[i].id,
                               displayName |-> items[i].displayName,
                               ownedBy |-> items[i].ownedBy,
                               sources |-> SortedSources(items[i].sources)]])
    IN  [i \in 1..Len(providers) |->
            [provider |-> providers[i],
             count |-> Len(ModelsOf(providers[i])),
             models |-> ModelsOf(providers[i])]]

RECURSIVE SumCounts(_)
SumCounts(groups) ==
    IF groups = <<>> THEN 0 ELSE Head(groups).count + SumCounts(Tail(groups))

EndpointStatus(resp, listed) ==
    [ok |-> resp.ok, status |-> resp.status,
     count |-> IF listed = <<>> THEN 0 ELSE Len(listed[1]),
     error |-> resp.error]

getProviderModelsAllOrNothing(openaiModelsResp, geminiModelsResp) ==
    [endpointStatus |->
        [openai |-> EndpointStatus(openaiModelsResp, ListedOpenai(openaiModelsResp)),
         gemini |-> EndpointStatus(geminiModelsResp, ListedGemini(geminiModelsResp))],
     totalModels |->
        IF openaiModelsResp.ok /\ geminiModelsResp.ok
        THEN SumCounts(ProviderModels(ModelEntries(openaiModelsResp, geminiModelsResp)))
        ELSE 0,
     providerModels |->
        IF openaiModelsResp.ok /\ geminiModelsResp.ok
        THEN ProviderModels(ModelEntries(openaiModelsResp, geminiModelsResp))
        ELSE <<>>]

\* getProviderModels once both results are known.  (generatedAt, proxyBase
\* and authorization are left out of the document.)
getProviderModels(openaiModelsResp, geminiModelsResp) ==
    LET providerModels == ProviderModels(ModelEntries(openaiModelsResp, geminiModelsResp))
    IN  [endpointStatus |->
            [openai |-> EndpointStatus(openaiModelsResp, ListedOpenai(openaiModelsResp)),
             gemini |-> EndpointStatus(geminiModelsResp, ListedGemini(geminiModelsResp))],
         totalModels |-> SumCounts(providerModels),
         providerModels |-> providerModels]

\* Model records of the two listings.
M_gpt4o == <<"g", "p", "t", "-", "4", "o">>
M_geminiPro == <<"g", "e", "m", "i", "n", "i", "-", "p", "r", "o">>

OpenaiRecords ==
    {[NoModel EXCEPT !.id = M_gpt4o, !.owned_by = K_openai, !.display_name = <<"G">>],
     [NoModel EXCEPT !.id = M_gpt4o, !.owned_by = <<"s", "y", "s", "t", "e", "m">>],
     [NoModel EXCEPT !.id = M_geminiPro],
     [NoModel EXCEPT !.id = <<SP>>, !.owned_by = K_openai]}

GeminiRecords ==
    {[NoModel EXCEPT !.name = K_modelsPrefix \o M_gpt4o],
     [NoModel EXCEPT !.name = K_modelsPrefix \o M_geminiPro, !.displayName = <<"P">>],
     [NoModel EXCEPT !.id = M_gpt4o, !.display_name = <<SP, "g">>],
     [NoModel EXCEPT !.name = K_modelsPrefix]}

EmptyBody == [text |-> "", parsed |-> <<>>]

ErrorBodies ==
    {EmptyBody,
     [text |-> "<html>", parsed |-> <<>>],
     [text |-> "json", parsed |->
         <<[NoPayload EXCEPT !.error = [kind |-> "object", message |-> "bad key",
                                        text |-> ""]]>>],
     [text |-> "json", parsed |->
         <<[NoPayload EXCEPT !.error = [kind |-> "object", message |-> "",
                                        text |-> ""]]>>],
     [text |-> "json", parsed |->
         <<[NoPayload EXCEPT !.error = [kind |-> "string", message |-> "",
                                        text |-> "denied"]]>>],
     [text |-> "json", parsed |-> <<[NoPayload EXCEPT !.message = "down"]>>]}

OkBodiesOpenai ==
    {EmptyBody, [text |-> "<html>", parsed |-> <<>>],
     [text |-> "json", parsed |-> <<NoPayload>>]}
    \cup {[text |-> "json", parsed |-> <<[NoPayload EXCEPT !.data = <<models>>]>>] :
             models \in SeqsUpTo(OpenaiRecords, MaxModels)}

OkBodiesGemini ==
    {EmptyBody, [text |-> "<html>", parsed |-> <<>>],
     [text |-> "json", parsed |-> <<NoPayload>>]}
    \cup {[text |-> "json", parsed |-> <<[NoPayload EXCEPT !.models = <<models>>]>>] :
             models \in SeqsUpTo(GeminiRecords, MaxModels)}

Rejections ==
    {[kind |-> "rejects", message |-> "fetch failed", status |-> 0, body |-> EmptyBody],
     [kind |-> "aborted", message |-> "This operation was aborted", status |-> 0,
      body |-> EmptyBody]}

Responses(okBodies) ==
    {[kind |-> "response", message |-> "", status |-> 200, body |-> b] : b \in okBodies}
    \cup {[kind |-> "response", message |-> "", status |-> 500, body |-> b] :
             b \in ErrorBodies}
    \cup {[kind |-> "response", message |-> "", status |-> 503, body |-> EmptyBody]}

MdlInit ==
    /\ mdl_exchangeA \in Rejections \cup Responses(OkBodiesOpenai)
    /\ mdl_exchangeB \in Rejections \cup Responses(OkBodiesGemini)
    /\ mdl_openai = <<>>
    /\ mdl_gemini = <<>>
    /\ mdl_first = ""
    /\ mdl_doc = <<>>

\* fetchProxyJSON("/v1/models") returns
MdlOpenaiSettles ==
    /\ mdl_openai = <<>>
    /\ mdl_openai' = <<fetchProxyJSON(mdl_exchangeA)>>
    /\ mdl_first' = IF mdl_first = "" THEN "openai" ELSE mdl_first
    /\ UNCHANGED <<mdl_exchangeA, mdl_exchangeB, mdl_gemini, mdl_doc>>
    /\ UNCHANGED notMdlVars

\* fetchProxyJSON("/v1beta/models") returns
MdlGeminiSettles ==
    /\ mdl_gemini = <<>>
    /\ mdl_gemini' = <<fetchProxyJSON(mdl_exchangeB)>>
    /\ mdl_first' = IF mdl_first = "" THEN "gemini" ELSE mdl_first
    /\ UNCHANGED <<mdl_exchangeA, mdl_exchangeB, mdl_openai, mdl_doc>>
    /\ UNCHANGED notMdlVars

\* Promise.all has both results: the rest of getProviderModels runs
MdlAggregate ==
    /\ mdl_openai # <<>>
    /\ mdl_gemini # <<>>
    /\ mdl_doc = <<>>
    /\ mdl_doc' = <<getProviderModels(mdl_openai[1], mdl_gemini[1])>>
    /\ UNCHANGED <<mdl_exchangeA, mdl_exchangeB, mdl_openai, mdl_gemini, mdl_first>>
    /\ UNCHANGED notMdlVars

MdlNext ==
    \/ MdlOpenaiSettles
    \/ MdlGeminiSettles
    \/ MdlAggregate

----------------------------------------------------------------------------
(* inferProviderFromModel as a function of its two arguments *)

K_llama == <<"l", "l", "a", "m", "a">>

\* Model ids are built from the keywords the function looks for, a word it
\* does not look for, a blank and an upper-case keyword.
IdFragments ==
    {P_claude, P_gemini, P_qwen, P_iflow, K_gpt, <<"o", "1">>, <<"o", "3">>,
     <<"o", "4">>, P_codex, K_llama, <<SP>>, <<"G", "P", "T">>}

ModelIds == {Concat(parts) : parts \in SeqsUpTo(IdFragments, MaxFragments)}

OwnerHints ==
    {<<>>, K_openai, K_anthropic, K_proxy, K_openrouter, K_llama, P_unknown}

InfInit ==
    /\ inf_id \in ModelIds
    /\ inf_owner \in OwnerHints
    /\ inf_pc = "start"
    /\ inf_provider = <<>>

InfCall ==
    /\ inf_pc = "start"
    /\ inf_provider' = inferProviderFromModel(inf_id, inf_owner)
    /\ inf_pc' = "done"
    /\ UNCHANGED <<inf_id, inf_owner>>
    /\ UNCHANGED notInfVars

InfNext ==
    \/ InfCall

----------------------------------------------------------------------------
(* The dashboard client: resolution gate, refresh and log stream *)

\* Container names a summary can report; "" stands for none.
ContainerNames == {DEFAULT_SERVICE, "other", ""}

\* new EventSource(...): an object that is not one of the open ones.
NewSource(open) ==
    CHOOSE s \in 1..MaxSources : s \notin open /\ \A r \in 1..MaxSources \ open : s <= r

\* disconnectLogs: the sources left open once state.eventSource is closed.
disconnectLogs(eventSource, open) == open \ {eventSource}

\* The variant of connectLogs that does not close the previous source.
connectLogsKeepsOld(caller) ==
    /\ cli_connectCaller' = caller
    /\ IF cli_blocked
       THEN UNCHANGED <<cli_eventSource, cli_open, cli_logsState>>
       ELSE /\ cli_open # 1..MaxSources
            /\ cli_eventSource' = NewSource(cli_open)
            /\ cli_open' = cli_open \cup {NewSource(cli_open)}
            /\ cli_logsState' = "streaming"

\* The variant of connectLogs that does not look at the gate.
connectLogsUnguarded(caller) ==
    /\ cli_connectCaller' = caller
    /\ cli_eventSource' = NewSource(disconnectLogs(cli_eventSource, cli_open))
    /\ cli_open' = disconnectLogs(cli_eventSource, cli_open)
                      \cup {NewSource(disconnectLogs(cli_eventSource, cli_open))}
    /\ cli_logsState' = "streaming"

\* connectLogs, called by `caller`.
connectLogs(caller) ==
    /\ cli_connectCaller' = caller
    /\ IF cli_blocked
       THEN UNCHANGED <<cli_eventSource, cli_open, cli_logsState>>
       ELSE LET rest == disconnectLogs(cli_eventSource, cli_open)
            IN  /\ rest # 1..MaxSources
                /\ cli_eventSource' = NewSource(rest)
                /\ cli_open' = rest \cup {NewSource(rest)}
                /\ cli_logsState' = "streaming"

\* The page has loaded: applyResolutionGate(), refreshData(true) unless
\* blocked, and the 8 s interval is set.
CliInit ==
    /\ cli_viewport \in {"ok", "small"}
    /\ cli_blocked = (cli_viewport = "small")
    /\ cli_eventSource = 0
    /\ cli_open = {}
    /\ cli_timers = 0
    /\ cli_refreshes = (IF cli_blocked THEN 0 ELSE 1)
    /\ cli_actions = 0
    /\ cli_currentContainer = DEFAULT_SERVICE
    /\ cli_logsState = (IF cli_blocked THEN "paused" ELSE "")
    /\ cli_connectCaller = ""

\* 'resize' or 'orientationchange' that takes the window across the minimum
\* size: applyResolutionGate() changes the gate; entering the blocked state
\* disconnects, leaving it starts refreshData(true).
CliResize ==
    /\ cli_viewport' = (IF cli_viewport = "ok" THEN "small" ELSE "ok")
    /\ cli_blocked' = (cli_viewport' = "small")
    /\ cli_connectCaller' = ""
    /\ IF cli_blocked'
       THEN /\ cli_open' = disconnectLogs(cli_eventSource, cli_open)
            /\ cli_eventSource' = 0
            /\ cli_logsState' = "paused"
            /\ UNCHANGED cli_refreshes
       ELSE /\ cli_refreshes < MaxRefreshes
            /\ cli_refreshes' = cli_refreshes + 1
            /\ UNCHANGED <<cli_open, cli_eventSource, cli_logsState>>
    /\ UNCHANGED <<cli_timers, cli_actions, cli_currentContainer>>
    /\ UNCHANGED notCliVars

\* The 8 s interval or a click on "refresh now": refreshData starts, and
\* returns at once when the gate is blocked.
CliRefreshStart ==
    /\ ~cli_blocked
    /\ cli_refreshes < MaxRefreshes
    /\ cli_refreshes' = cli_refreshes + 1
    /\ UNCHANGED <<cli_viewport, cli_blocked, cli_eventSource, cli_open, cli_timers,
                   cli_actions, cli_currentContainer, cli_logsState, cli_connectCaller>>
    /\ UNCHANGED notCliVars

\* Both fetches of a refreshData call have resolved; the summary names
\* nextContainer.  (The later fetch of the models touches no log stream.)
CliRefreshResolves ==
    /\ cli_refreshes > 0
    /\ cli_refreshes' = cli_refreshes - 1
    /\ \E nextContainer \in ContainerNames :
         /\ cli_currentContainer' =
               (IF nextContainer # "" THEN nextContainer ELSE cli_currentContainer)
         /\ IF \/ cli_eventSource = 0
               \/ (nextContainer # "" /\ nextContainer # cli_currentContainer)
            THEN connectLogs("refresh")
            ELSE UNCHANGED <<cli_eventSource, cli_open, cli_logsState, cli_connectCaller>>
    /\ UNCHANGED <<cli_viewport, cli_blocked, cli_timers, cli_actions>>
    /\ UNCHANGED notCliVars

\* A fetch of a refreshData call has failed: the catch block.
CliRefreshFails ==
    /\ cli_refreshes > 0
    /\ cli_refreshes' = cli_refreshes - 1
    /\ UNCHANGED <<cli_viewport, cli_blocked, cli_eventSource, cli_open, cli_timers,
                   cli_actions, cli_currentContainer, cli_logsState, cli_connectCaller>>
    /\ UNCHANGED notCliVars

\* A click on an action button: runAction posts unless the gate is blocked.
CliActionStart ==
    /\ ~cli_blocked
    /\ cli_actions < MaxActions
    /\ cli_actions' = cli_actions + 1
    /\ UNCHANGED <<cli_viewport, cli_blocked, cli_eventSource, cli_open, cli_timers,
                   cli_refreshes, cli_currentContainer, cli_logsState, cli_connectCaller>>
    /\ UNCHANGED notCliVars

\* The POST of runAction has returned: on success refreshData() is called.
CliActionReturns ==
    /\ cli_actions > 0
    /\ cli_actions' = cli_actions - 1
    /\ \E ok \in BOOLEAN :
         IF ok /\ ~cli_blocked
         THEN cli_refreshes < MaxRefreshes /\ cli_refreshes' = cli_refreshes + 1
         ELSE UNCHANGED cli_refreshes
    /\ UNCHANGED <<cli_viewport, cli_blocked, cli_eventSource, cli_open, cli_timers,
                   cli_currentContainer, cli_logsState, cli_connectCaller>>
    /\ UNCHANGED notCliVars

\* The variant of onerror that sets no timer.
CliSourceErrorNoRetry ==
    /\ \E source \in cli_open, fatal \in BOOLEAN :
         cli_open' = disconnectLogs(cli_eventSource, cli_open)
                        \ (IF fatal THEN {source} ELSE {})
    /\ cli_eventSource' = 0
    /\ cli_logsState' = "reconnecting"
    /\ UNCHANGED <<cli_viewport, cli_blocked, cli_timers, cli_refreshes, cli_actions,
                   cli_currentContainer, cli_connectCaller>>
    /\ UNCHANGED notCliVars

\* source.onerror of a source that is not closed: the connection failed or
\* the server ended the stream.  The browser closes the source itself when
\* the failure is fatal.
CliSourceError ==
    /\ cli_timers < MaxTimers
    /\ \E source \in cli_open, fatal \in BOOLEAN :
         cli_open' = disconnectLogs(cli_eventSource, cli_open)
                        \ (IF fatal THEN {source} ELSE {})
    /\ cli_eventSource' = 0
    /\ cli_logsState' = "reconnecting"
    /\ cli_timers' = cli_timers + 1
    /\ UNCHANGED <<cli_viewport, cli_blocked, cli_refreshes, cli_actions,
                   cli_currentContainer, cli_connectCaller>>
    /\ UNCHANGED notCliVars

\* window.setTimeout(connectLogs, 1800) fires.
CliReconnectTimer ==
    /\ cli_timers > 0
    /\ cli_timers' = cli_timers - 1
    /\ connectLogs("timer")
    /\ UNCHANGED <<cli_viewport, cli_blocked, cli_refreshes, cli_actions,
                   cli_currentContainer>>
    /\ UNCHANGED notCliVars

CliNext ==
    \/ CliResize
    \/ CliRefreshStart
    \/ CliRefreshResolves
    \/ CliRefreshFails
    \/ CliActionStart
    \/ CliActionReturns
    \/ CliSourceError
    \/ CliReconnectTimer

----------------------------------------------------------------------------
(* The HTTP server: access check, routing, and what each route does *)

\* A pathname is the sequence of its segments: "/api/summary" is
\* <<"api", "summary">>.

\* isLocalRequest, on req.socket.remoteAddress ("" when there is none).
isLocalRequestAnyPeer(addr) == TRUE

isLocalRequest(addr) == addr \in {"127.0.0.1", "::1", "::ffff:127.0.0.1"}

\* pathname.startsWith("/api/")
UnderApi(pathname) == Len(pathname) >= 2 /\ pathname[1] = "api"

\* pathname.startsWith("/api/container/")
UnderContainer(pathname) == Len(pathname) >= 3 /\ UnderApi(pathname) /\ pathname[2] = "container"

\* The access check at the head of the handler.
AccessDenied(allowRemote, pathname, addr) ==
    UnderApi(pathname) /\ ~allowRemote /\ ~isLocalRequest(addr)

\* The variant of the routing that does not look at the method of an action.
RouteOfAnyMethod(method, pathname) ==
    CASE method = "GET" /\ pathname = <<"api", "summary">> -> "summary"
      [] method = "GET" /\ pathname = <<"api", "auth-mechanisms">> -> "auth"
      [] method = "GET" /\ pathname = <<"api", "provider-models">> -> "models"
      [] method = "GET" /\ pathname = <<"api", "logs", "stream">> -> "stream"
      [] UnderContainer(pathname) -> "action"
      [] method = "GET" /\ pathname = <<"api", "healthz">> -> "healthz"
      [] OTHER -> "static"

\* The chain of tests on method and pathname, in the handler's order.
RouteOf(method, pathname) ==
    CASE method = "GET" /\ pathname = <<"api", "summary">> -> "summary"
      [] method = "GET" /\ pathname = <<"api", "auth-mechanisms">> -> "auth"
      [] method = "GET" /\ pathname = <<"api", "provider-models">> -> "models"
      [] method = "GET" /\ pathname = <<"api", "logs", "stream">> -> "stream"
      [] method = "POST" /\ UnderContainer(pathname) -> "action"
      [] method = "GET" /\ pathname = <<"api", "healthz">> -> "healthz"
      [] OTHER -> "static"

\* The argument arrays of the docker commands of the read paths.
ComposePsArgs == <<"compose", "-f", COMPOSE_FILE, "ps", "--all", "--format", "json">>
PsArgs == <<"ps", "-a", "--filter", "name=^/api4llm$", "--format", "{{json .}}">>
InspectArgs == <<"inspect", TARGET_CONTAINER, "--format", "{{json .State}}">>
LogsArgs == <<"logs", "--timestamps", "--tail", "200", "--follow", TARGET_CONTAINER>>

\* What a handler does next: spawn docker with args, respond with a body,
\* or throw.
Call(args) == [pc |-> "docker", args |-> args, body |-> <<>>]
Done(kind, value) == [pc |-> "done", args |-> <<>>, body |-> <<[kind |-> kind, value |-> value]>>]
Threw == [pc |-> "threw", args |-> <<>>, body |-> <<>>]

\* The summary getServiceSummary returns once the commands it awaited have
\* returned `observed`, in order.
SummaryFor(mode, observed) ==
    LET direct == IF mode = "container" THEN observed ELSE Tail(observed)
    IN  IF direct = <<>> THEN ComposeSummary(mode, observed[1])
        ELSE ServiceSummaryAfterDirect(mode, observed,
                 ContainerSummary(mode, direct[1], Tail(direct)))

\* The variant of getServiceSummary that answers from the summary of an
\* earlier request when there is one.
SummaryProgressCached(mode, observed) ==
    LET earlier == {i \in 1..Len(srv_reqs) :
                       /\ srv_reqs[i].route = "summary"
                       /\ srv_reqs[i].pc = "done"}
    IN  IF earlier # {}
        THEN [pc |-> "done", args |-> <<>>,
              body |-> <<srv_reqs[CHOOSE i \in earlier : TRUE].body>>]
        ELSE IF mode # "container" /\ observed = <<>> THEN Call(ComposePsArgs)
        ELSE IF \/ mode = "compose"
                \/ (mode # "container" /\ ComposeSummary(mode, observed[1]).dockerAvailable)
        THEN Done("summary", SummaryFor(mode, observed))
        ELSE IF (IF mode = "container" THEN observed ELSE Tail(observed)) = <<>>
        THEN Call(PsArgs)
        ELSE IF /\ Len(IF mode = "container" THEN observed ELSE Tail(observed)) = 1
                /\ NeedsInspect((IF mode = "container" THEN observed
                                 ELSE Tail(observed))[1])
        THEN Call(InspectArgs)
        ELSE Done("summary", SummaryFor(mode, observed))

\* getServiceSummary, up to its next await.
SummaryProgress(mode, observed) ==
    LET direct == IF mode = "container" THEN observed ELSE Tail(observed)
    IN  IF mode # "container" /\ observed = <<>> THEN Call(ComposePsArgs)
        ELSE IF /\ direct = <<>>
                /\ mode # "compose"
                /\ (mode = "container" \/ ~ComposeSummary(mode, observed[1]).dockerAvailable)
        THEN Call(PsArgs)
        ELSE IF Len(direct) = 1 /\ NeedsInspect(direct[1]) THEN Call(InspectArgs)
        ELSE Done("summary", SummaryFor(mode, observed))

\* The result runContainerAction returns once the commands it awaited have
\* returned `observed`.
ActionResultFor(mode, observed) ==
    IF mode = "compose" THEN CommandActionResult("compose", observed[1])
    ELSE IF mode = "container" THEN CommandActionResult("container", observed[1])
    ELSE IF Len(observed) = 1 THEN CommandActionResult("compose", observed[1])
    ELSE DispatchAuto(CommandActionResult("compose", observed[1]),
                      CommandActionResult("container", observed[2]))

\* runContainerAction, up to its next await.
ActionProgress(mode, action, observed) ==
    LET first == IF mode = "container" THEN "container" ELSE "compose"
        auto == mode \notin {"compose", "container"}
    IN  CASE Attempt(action) = "invalid" ->
               Done("action",
                    IF auto THEN DispatchAuto(ValidationResult("compose"),
                                              ValidationResult("container"))
                    ELSE ValidationResult(first))
          [] Attempt(action) = "throw" -> Threw
          [] OTHER ->
               IF observed = <<>> THEN Call(SpawnedArgs(first, action))
               ELSE IF auto /\ Len(observed) = 1
                       /\ ~CommandActionResult("compose", observed[1]).ok
               THEN Call(SpawnedArgs("container", action))
               ELSE Done("action", ActionResultFor(mode, observed))

\* The status of the response that carries `body`.
StatusFor(body) ==
    IF body.kind = "action" THEN StatusOf(body.value) ELSE 200

\* The fixed body of the access refusal.
LocalAccessOnly == "Local access only"

\* The requests the server is sent, and the addresses they come from.
Requests ==
    {[method |-> "GET", pathname |-> path] :
        path \in {<<"api", "summary">>, <<"api", "auth-mechanisms">>,
                  <<"api", "provider-models">>, <<"api", "logs", "stream">>,
                  <<"api", "healthz">>, <<"api", "container", "restart">>,
                  <<"api", "nothing">>, <<"index.html">>}}
    \cup {[method |-> "POST", pathname |-> path] :
        path \in {<<"api", "container", "restart">>, <<"api", "container", "start">>,
                  <<"api", "container", "status">>,
                  <<"api", "container", "__proto__">>, <<"api", "summary">>}}

PeerAddresses == {"127.0.0.1", "::ffff:127.0.0.1", "192.168.1.5", ""}

\* What the docker commands of the server return.
ServerDockerResults(args) ==
    {CloseResult(<<0>>, "null", FALSE,
                 IF args[1] = "inspect" THEN <<"I2">> ELSE <<"J1", NL>>, <<>>),
     CloseResult(<<1>>, "null", FALSE, <<>>, <<"e", "r", "r", NL>>)}

\* The credential files and configured keys getAuthMechanisms may find.
AuthEnvironments ==
    {[files |-> <<>>, static |-> NoStaticKeys],
     [files |-> <<ParsedFile(P_claude, <<Now + Day>>, <<>>, <<Now>>)>>,
      static |-> [NoStaticKeys EXCEPT ![P_claude] = 2]]}

\* What the two upstream requests of getProviderModels may come to.
UpstreamEnvironments ==
    {[a |-> x, b |-> x] : x \in {r \in Rejections : r.kind = "rejects"}}
    \cup {[a |-> [kind |-> "response", message |-> "", status |-> 200,
                  body |-> [text |-> "json", parsed |->
                      <<[NoPayload EXCEPT !.data = <<<<[NoModel EXCEPT !.id = M_gpt4o]>>>>]>>]],
           b |-> x] : x \in {r \in Rejections : r.kind = "aborted"}}

NoBody == [kind |-> "none", value |-> <<>>]

\* The record of a request that has come in from addr.
NewRequest(request, addr) ==
    [method |-> request.method, pathname |-> request.pathname, addr |-> addr,
     route |-> "", pc |-> "", observed |-> <<>>, status |-> 0, body |-> NoBody]

Effect(req, kind, args) == [req |-> req, kind |-> kind, args |-> args]

\* The request record and the effects once the handler has gone on as `step`
\* says.
Proceed(req, record, step) ==
    [record |-> [record EXCEPT
                    !.pc = step.pc,
                    !.status = IF step.pc = "done" THEN StatusFor(step.body[1]) ELSE 0,
                    !.body = IF step.pc = "done" THEN step.body[1] ELSE NoBody],
     effects |-> IF step.pc = "docker"
                 THEN Append(srv_effects, Effect(req, "docker", step.args))
                 ELSE srv_effects]

SrvInit ==
    /\ srv_mode \in {"compose", "container", "auto"}
    /\ srv_allowRemote \in BOOLEAN
    /\ srv_reqs = <<>>
    /\ srv_effects = <<>>

\* A request arrives: the handler runs up to its first await or to its
\* response.
SrvReceive ==
    /\ Len(srv_reqs) < MaxRequests
    /\ \E request \in Requests, addr \in PeerAddresses :
         LET req == Len(srv_reqs) + 1
             route == RouteOf(request.method, request.pathname)
             record == [NewRequest(request, addr) EXCEPT !.route = route]
             action == ActionOfPath(IF Len(request.pathname) >= 3
                                    THEN request.pathname[3] ELSE "")
             next == {CASE route = "summary" -> SummaryProgress(srv_mode, <<>>)
                        [] route = "action" -> ActionProgress(srv_mode, action, <<>>)
                        [] route = "healthz" -> Done("healthz", <<>>)
                        [] OTHER -> Threw}
         IN  IF AccessDenied(srv_allowRemote, request.pathname, addr)
             THEN /\ srv_reqs' = Append(srv_reqs,
                        [record EXCEPT !.route = "denied", !.pc = "done", !.status = 403,
                                       !.body = [kind |-> "error",
                                                 value |-> LocalAccessOnly]])
                  /\ UNCHANGED srv_effects
             ELSE CASE route \in {"summary", "action", "healthz"} ->
                         \E step \in next :
                             \E after \in {Proceed(req, record, step)} :
                                 /\ srv_reqs' = Append(srv_reqs, after.record)
                                 /\ srv_effects' = after.effects
                    [] route = "auth" ->
                         /\ srv_reqs' = Append(srv_reqs, [record EXCEPT !.pc = "files"])
                         /\ srv_effects' = Append(srv_effects,
                                                  Effect(req, "fs", <<"readFile">>))
                    [] route = "models" ->
                         /\ srv_reqs' = Append(srv_reqs, [record EXCEPT !.pc = "fetch"])
                         /\ srv_effects' = srv_effects
                                \o <<Effect(req, "net", <<"v1", "models">>),
                                     Effect(req, "net", <<"v1beta", "models">>)>>
                    [] route = "stream" ->
                         /\ srv_reqs' = Append(srv_reqs,
                                [record EXCEPT !.pc = "stream", !.status = 200])
                         /\ srv_effects' = Append(srv_effects,
                                                  Effect(req, "docker", LogsArgs))
                    [] OTHER ->
                         /\ srv_reqs' = Append(srv_reqs, [record EXCEPT !.pc = "static"])
                         /\ srv_effects' = Append(srv_effects,
                                                  Effect(req, "fs", <<"access">>))
    /\ UNCHANGED <<srv_mode, srv_allowRemote>>
    /\ UNCHANGED notSrvVars

\* The docker command a summary or action request awaits has returned.
SrvDockerReturns ==
    /\ \E req \in 1..Len(srv_reqs) :
         /\ srv_reqs[req].pc = "docker"
         /\ LET issued == SelectSeq(srv_effects, LAMBDA x : x.req = req)
                args == issued[Len(issued)].args
            IN  \E result \in ServerDockerResults(IF args = <<>> THEN <<"">> ELSE args) :
                  LET observed == Append(srv_reqs[req].observed, result)
                      record == [srv_reqs[req] EXCEPT !.observed = observed]
                      next == {IF record.route = "summary"
                               THEN SummaryProgress(srv_mode, observed)
                               ELSE ActionProgress(srv_mode,
                                        ActionOfPath(record.pathname[3]), observed)}
                  IN  \E step \in next :
                          \E after \in {Proceed(req, record, step)} :
                              /\ srv_reqs' = [srv_reqs EXCEPT ![req] = after.record]
                              /\ srv_effects' = after.effects
    /\ UNCHANGED <<srv_mode, srv_allowRemote>>
    /\ UNCHANGED notSrvVars

\* getAuthMechanisms has read the configuration and the credential files.
SrvFilesRead ==
    /\ \E req \in 1..Len(srv_reqs), env \in AuthEnvironments :
         /\ srv_reqs[req].pc = "files"
         /\ srv_reqs' = [srv_reqs EXCEPT ![req] =
               [@ EXCEPT !.pc = "done", !.status = 200, !.observed = <<env>>,
                         !.body = [kind |-> "auth",
                                   value |-> buildProviderHealth(env.files, env.static,
                                                                 Now)]]]
    /\ UNCHANGED <<srv_mode, srv_allowRemote, srv_effects>>
    /\ UNCHANGED notSrvVars

\* Both upstream requests of getProviderModels have settled.
SrvUpstreamSettles ==
    /\ \E req \in 1..Len(srv_reqs), env \in UpstreamEnvironments :
         /\ srv_reqs[req].pc = "fetch"
         /\ srv_reqs' = [srv_reqs EXCEPT ![req] =
               [@ EXCEPT !.pc = "done", !.status = 200, !.observed = <<env>>,
                         !.body = [kind |-> "models",
                                   value |-> getProviderModels(fetchProxyJSON(env.a),
                                                               fetchProxyJSON(env.b))]]]
    /\ UNCHANGED <<srv_mode, srv_allowRemote, srv_effects>>
    /\ UNCHANGED notSrvVars

\* serveStatic has looked for the file.
SrvStaticServed ==
    /\ \E req \in 1..Len(srv_reqs), found \in BOOLEAN :
         /\ srv_reqs[req].pc = "static"
         /\ srv_reqs' = [srv_reqs EXCEPT ![req] =
               [@ EXCEPT !.pc = "done", !.status = IF found THEN 200 ELSE 404,
                         !.body = [kind |-> "static", value |-> <<>>]]]
    /\ UNCHANGED <<srv_mode, srv_allowRemote, srv_effects>>
    /\ UNCHANGED notSrvVars

\* The child of a log stream has closed: the response is ended.
SrvStreamEnds ==
    /\ \E req \in 1..Len(srv_reqs) :
         /\ srv_reqs[req].pc = "stream"
         /\ srv_reqs' = [srv_reqs EXCEPT ![req] =
               [@ EXCEPT !.pc = "done", !.body = [kind |-> "stream", value |-> <<>>]]]
    /\ UNCHANGED <<srv_mode, srv_allowRemote, srv_effects>>
    /\ UNCHANGED notSrvVars

SrvNext ==
    \/ SrvReceive
    \/ SrvDockerReturns
    \/ SrvFilesRead
    \/ SrvUpstreamSettles
    \/ SrvStaticServed
    \/ SrvStreamEnds

----------------------------------------------------------------------------
(* Specifications: one per component, the other components at rest *)

RunIdle ==
    /\ run_child = "closed"
    /\ run_behaviour = "exits"
    /\ run_timer = "cleared"
    /\ run_timedOut = FALSE
    /\ run_stdout = <<>>
    /\ run_stderr = <<>>
    /\ run_killed = FALSE
    /\ run_signals = 0
    /\ run_exit = [code |-> <<0>>, signal |-> "null"]
    /\ run_chunks = 0
    /\ run_resolveCalls = 0
    /\ run_settled = <<>>

SumIdle ==
    /\ sum_mode = "auto"
    /\ sum_pc = "done"
    /\ sum_calls = <<>>
    /\ sum_compose = <<>>
    /\ sum_ps = <<>>
    /\ sum_inspect = <<>>
    /\ sum_summary = <<>>

ActIdle ==
    /\ act_mode = "auto"
    /\ act_action = "start"
    /\ act_pc = "done"
    /\ act_calls = <<>>
    /\ act_composeRes = <<>>
    /\ act_directRes = <<>>
    /\ act_result = <<>>
    /\ act_response = 0

LogIdle ==
    /\ log_stdoutRest = <<>>
    /\ log_stderrRest = <<>>
    /\ log_stdoutSent = <<>>
    /\ log_stderrSent = <<>>
    /\ log_buffer = <<>>
    /\ log_out = <<>>
    /\ log_child = "closed"
    /\ log_exitCode = <<>>
    /\ log_killed = FALSE
    /\ log_signals = 0
    /\ log_heartbeat = FALSE
    /\ log_reqEvents = {"close"}

NpIdle ==
    /\ np_raw = <<>>
    /\ np_pc = "grouped"
    /\ np_provider = P_unknown
    /\ np_group = P_unknown

HlIdle ==
    /\ hl_pc = "built"
    /\ hl_files = <<>>
    /\ hl_static = NoStaticKeys
    /\ hl_evals = <<>>
    /\ hl_output = <<>>

MdlIdle ==
    /\ mdl_exchangeA \in {[kind |-> "rejects", message |-> "fetch failed",
                           status |-> 0, body |-> EmptyBody]}
    /\ mdl_exchangeB = mdl_exchangeA
    /\ mdl_openai = <<fetchProxyJSON(mdl_exchangeA)>>
    /\ mdl_gemini = <<fetchProxyJSON(mdl_exchangeB)>>
    /\ mdl_first = "openai"
    /\ mdl_doc = <<getProviderModels(mdl_openai[1], mdl_gemini[1])>>

InfIdle ==
    /\ inf_id = <<>>
    /\ inf_owner = <<>>
    /\ inf_pc = "done"
    /\ inf_provider = P_unknown

SrvIdle ==
    /\ srv_mode = "auto"
    /\ srv_allowRemote = FALSE
    /\ srv_reqs = <<>>
    /\ srv_effects = <<>>

CliIdle ==
    /\ cli_viewport = "small"
    /\ cli_blocked = TRUE
    /\ cli_eventSource = 0
    /\ cli_open = {}
    /\ cli_timers = 0
    /\ cli_refreshes = 0
    /\ cli_actions = 0
    /\ cli_currentContainer = DEFAULT_SERVICE
    /\ cli_logsState = "paused"
    /\ cli_connectCaller = ""

LastIdle == InfIdle /\ SrvIdle /\ CliIdle

MoreIdle == NpIdle /\ HlIdle /\ MdlIdle /\ LastIdle

InitRun == RunInit /\ SumIdle /\ ActIdle /\ LogIdle /\ MoreIdle
SpecRun == InitRun /\ [][RunNext]_vars

InitSummary == SumInit /\ RunIdle /\ ActIdle /\ LogIdle /\ MoreIdle
SpecSummary == InitSummary /\ [][SumNext]_vars

InitAction == ActInit /\ RunIdle /\ SumIdle /\ LogIdle /\ MoreIdle
SpecAction == InitAction /\ [][ActNext]_vars

InitLogs == LogInit /\ RunIdle /\ SumIdle /\ ActIdle /\ MoreIdle
SpecLogs == InitLogs /\ [][LogNext]_vars

FirstIdle == RunIdle /\ SumIdle /\ ActIdle /\ LogIdle

InitProvider == NpInit /\ FirstIdle /\ HlIdle /\ MdlIdle /\ LastIdle
SpecProvider == InitProvider /\ [][NpNext]_vars

InitHealth == HlInit /\ FirstIdle /\ NpIdle /\ MdlIdle /\ LastIdle
SpecHealth == InitHealth /\ [][HlNext]_vars

InitModels == MdlInit /\ FirstIdle /\ NpIdle /\ HlIdle /\ LastIdle
SpecModels == InitModels /\ [][MdlNext]_vars

EarlierIdle == FirstIdle /\ NpIdle /\ HlIdle /\ MdlIdle

InitInfer == InfInit /\ EarlierIdle /\ SrvIdle /\ CliIdle
SpecInfer == InitInfer /\ [][InfNext]_vars

InitServer == SrvInit /\ EarlierIdle /\ InfIdle /\ CliIdle
SpecServer == InitServer /\ [][SrvNext]_vars

InitClient == CliInit /\ EarlierIdle /\ InfIdle /\ SrvIdle
SpecClient == InitClient /\ [][CliNext]_vars

\* A timer set by window.setTimeout fires.
SpecClientFair == SpecClient /\ WF_vars(CliReconnectTimer)

----------------------------------------------------------------------------
(* Claims about the Service State Resolver (SpecSummary) *)

SumAutoMode == sum_mode \notin {"compose", "container"}

SumComposeFailed == sum_compose # <<>> /\ sum_compose[1].code # 0

SumDirectOk == sum_ps # <<>> /\ sum_ps[1].code = 0

\* The summary getContainerServiceSummary alone returns for the results observed.
DirectAlone == ContainerSummary(sum_mode, sum_ps[1], sum_inspect)

\* The error text the compose call failed with.
ComposeErrorText ==
    Trim(OrElse(sum_compose[1].stderr, OrElse(sum_compose[1].stdout, T_composeFailed)))

\* C1, as stated: in automatic mode, whenever the compose query failed, the
\* summary returned equals field for field the summary of the direct query
\* alone, and dockerAvailable tells whether "docker ps" succeeded.
C1_FallbackEqualsDirectAlone ==
    (SumAutoMode /\ sum_pc = "done" /\ SumComposeFailed) =>
        /\ sum_summary[1] = DirectAlone
        /\ sum_summary[1].dockerAvailable = SumDirectOk

\* C1, amended: in automatic mode, whenever the compose query failed, the
\* summary returned is the summary of the direct query alone except for two
\* fields: commandError is the compose call's error text, and backend is
\* "compose" when the direct query failed too.  dockerAvailable tells whether
\* "docker ps" succeeded; overallState and services are the direct query's.
C1_FallbackAgreesWithDirectAlone ==
    (SumAutoMode /\ sum_pc = "done" /\ SumComposeFailed) =>
        /\ sum_summary[1] =
              [DirectAlone EXCEPT
                 !.backend = IF SumDirectOk THEN "container" ELSE "compose",
                 !.commandError = ComposeErrorText]
        /\ sum_summary[1].dockerAvailable = SumDirectOk

C1_Witness ==
    /\ SumAutoMode /\ sum_pc = "done" /\ SumComposeFailed /\ SumDirectOk
    /\ sum_inspect # <<>>
    /\ sum_summary[1].commandError # <<>>
    /\ sum_summary[1].services[1].running

\* C2: in automatic mode the compose query is issued first and the direct
\* query only after the compose query has failed; the compose summary is
\* returned when compose succeeded; the direct summary (backend "container",
\* dockerAvailable, overallState from the direct row) when compose failed and
\* direct succeeded; the compose summary with the compose error when neither did.
C2_AutoComposeFirstThenDirect ==
    SumAutoMode =>
        /\ sum_calls # <<>> => sum_calls[1] = "compose ps"
        /\ sum_pc = "awaitCompose" => sum_calls = <<"compose ps">>
        /\ \A i \in DOMAIN sum_calls :
              sum_calls[i] \in {"ps", "inspect"} => i > 1 /\ SumComposeFailed
        /\ sum_pc = "done" =>
              IF ~SumComposeFailed
              THEN /\ sum_summary[1].backend = "compose"
                   /\ sum_summary[1].dockerAvailable
                   /\ sum_summary[1] = ComposeSummary(sum_mode, sum_compose[1])
                   /\ sum_calls = <<"compose ps">>
              ELSE IF SumDirectOk
              THEN /\ sum_summary[1].backend = "container"
                   /\ sum_summary[1].dockerAvailable
                   /\ sum_summary[1].services = DirectAlone.services
                   /\ sum_summary[1].overallState =
                         IF sum_summary[1].services[1].running THEN S_running
                         ELSE sum_summary[1].services[1].state
              ELSE /\ sum_summary[1].backend = "compose"
                   /\ ~sum_summary[1].dockerAvailable
                   /\ sum_summary[1] = ComposeSummary(sum_mode, sum_compose[1])
                   /\ sum_summary[1].commandError = ComposeErrorText

C2_Witness ==
    /\ SumAutoMode /\ sum_pc = "done" /\ SumComposeFailed /\ SumDirectOk
    /\ sum_calls = <<"compose ps", "ps", "inspect">>
    /\ sum_summary[1].backend = "container"
    /\ sum_summary[1].dockerAvailable
    /\ sum_summary[1].overallState = S_running

----------------------------------------------------------------------------
(* Claims about runCommand (SpecRun) *)

RunSpawnFailed == run_exit.code = <<SpawnErrno>>

\* C7: every runCommand call resolves: once nothing more can happen in the
\* call it has delivered a result, with timedOut = true if the timer fired.
C7_EveryCallResolves ==
    (~ENABLED RunNext) =>
        /\ run_settled # <<>>
        /\ run_timer = "fired" => run_settled[1].timedOut

----------------------------------------------------------------------------
(* Claims about the Action Dispatcher (SpecAction) *)

ActAutoMode == act_mode \notin {"compose", "container"}

ActComposeOk == act_composeRes # <<>> /\ act_composeRes[1].code = 0

ActDirectOk == act_directRes # <<>> /\ act_directRes[1].code = 0

\* The failure message of a command: its stderr, else its stdout (both
\* trimmed), else the fixed text.
FailureMessage(result, fixed) ==
    OrElse(Trim(result.stderr), OrElse(Trim(result.stdout), fixed))

\* C9: in automatic mode the compose action is attempted first and the direct
\* action only if the compose action failed; backend names the backend that
\* succeeded; whenever the direct action was attempted the result carries the
\* other attempt's failure message as fallbackError, next to the returned
\* attempt's own output; when the compose action succeeds the direct action is
\* never run.
C9_ComposeFirstThenDirectWithError ==
    ActAutoMode =>
        /\ act_calls # <<>> => act_calls[1].backend = "compose"
        /\ \A i \in DOMAIN act_calls :
              act_calls[i].backend = "container" =>
                  i = 2 /\ act_composeRes # <<>> /\ ~ActComposeOk
        /\ ActComposeOk => Len(act_calls) = 1 /\ act_directRes = <<>>
        /\ (act_pc = "done" /\ act_composeRes = <<>>) =>
              /\ ~act_result[1].ok
              /\ "fallbackError" \in act_result[1].fields
        /\ (act_pc = "done" /\ act_composeRes # <<>>) =>
              IF ActComposeOk
              THEN /\ act_result[1].ok
                   /\ act_result[1].backend = "compose"
                   /\ "fallbackError" \notin act_result[1].fields
              ELSE /\ act_directRes # <<>>
                   /\ "fallbackError" \in act_result[1].fields
                   /\ IF ActDirectOk
                      THEN /\ act_result[1].ok
                           /\ act_result[1].backend = "container"
                           /\ act_result[1].fallbackFrom = "compose"
                           /\ act_result[1].fallbackError =
                                 FailureMessage(act_composeRes[1], T_composeActionFailed)
                      ELSE /\ ~act_result[1].ok
                           /\ act_result[1].backend = "compose"
                           /\ act_result[1].stderr = Trim(act_composeRes[1].stderr)
                           /\ act_result[1].stdout = Trim(act_composeRes[1].stdout)
                           /\ act_result[1].fallbackTried = "container"
                           /\ act_result[1].fallbackError =
                                 FailureMessage(act_directRes[1], T_containerActionFailed)

C9_Witness ==
    /\ ActAutoMode /\ act_pc = "done"
    /\ act_composeRes # <<>> /\ ~ActComposeOk /\ ActDirectOk
    /\ Len(act_calls) = 2
    /\ act_result[1].backend = "container"
    /\ act_result[1].fallbackError = <<"e", "r", "r">>

\* C10: for every action name other than start, stop and restart, in every
\* docker mode, the request is answered with the 'unsupported action'
\* validation result and no subprocess is spawned.
C10_UnknownActionRejected ==
    act_action \notin {"start", "stop", "restart"} =>
        /\ act_calls = <<>>
        /\ act_pc # "threw"
        /\ act_pc = "done" =>
              /\ ~act_result[1].ok
              /\ act_result[1].error = T_unsupported
              /\ act_response = 500

----------------------------------------------------------------------------
(* Claims about the Log Stream Multiplexer (SpecLogs) *)

LogSpawnFailed == log_child \in {"failed", "errored"} \/ log_exitCode = <<SpawnErrno>>

LogDisconnected == log_reqEvents # {}

\* The lines of the data frames of one kind, in the order written.
DataLines(out, kind) ==
    LET frames == SelectSeq(out, LAMBDA o : o.frame = "data" /\ o.kind = kind)
    IN  [i \in 1..Len(frames) |-> frames[i].line]

\* The non-empty lines of a text that a line break ends.
CompleteLines(text) ==
    LET parts == SplitLines(text)
    IN  SelectSeq(SubSeq(parts, 1, Len(parts) - 1), LAMBDA line : line # <<>>)

\* C3: while only one channel has delivered output, however that output was
\* cut into chunks, the lines emitted are exactly the non-empty
\* newline-terminated lines of the concatenated output, in order, each once.
C3_ChunkingIndependent ==
    log_child \in {"alive", "exited"} =>
        /\ log_stderrSent = <<>> =>
              DataLines(log_out, "log") = CompleteLines(Utf8Decode(log_stdoutSent))
        /\ log_stdoutSent = <<>> =>
              DataLines(log_out, "error") = CompleteLines(Utf8Decode(log_stderrSent))

\* The same statement for output in which no chunk ends inside a character.
ChunkingIndependentOnCharacterBoundaries ==
    (/\ log_child \in {"alive", "exited"}
     /\ \A i \in 1..Len(log_out) : \A j \in 1..Len(log_out[i].line) :
           log_out[i].line[j] # Replacement
     /\ \A j \in 1..Len(log_buffer) : log_buffer[j] # Replacement) =>
        /\ log_stderrSent = <<>> =>
              DataLines(log_out, "log") = CompleteLines(Utf8Decode(log_stdoutSent))
        /\ log_stdoutSent = <<>> =>
              DataLines(log_out, "error") = CompleteLines(Utf8Decode(log_stderrSent))

\* The characters each channel's output decodes to.
StdoutChars == {"a", CR, NonAscii, Replacement}
StderrChars == {"b"}

\* C4: under every interleaving of stdout and stderr chunks, the line of every
\* emitted event is text of one channel only and carries that channel's kind
\* ("log" for stdout, "error" for stderr).
C4_ChannelsIndependent ==
    ~LogSpawnFailed =>
        \A i \in 1..Len(log_out) :
            /\ (log_out[i].frame = "data" /\ log_out[i].kind = "log") =>
                  \A j \in 1..Len(log_out[i].line) : log_out[i].line[j] \in StdoutChars
            /\ (log_out[i].frame = "data" /\ log_out[i].kind = "error") =>
                  \A j \in 1..Len(log_out[i].line) : log_out[i].line[j] \in StderrChars

StatusFrames(out) == {i \in 1..Len(out) : out[i].frame = "data" /\ out[i].kind = "status"}

\* C5: when the log subprocess closes the handler emits, in this order, the
\* non-blank unterminated buffered text as one final line, one status event
\* carrying the exit code, and the end of the response; there is exactly one
\* status event, it is followed at once by the end of the response, and no
\* data event is written after it.
C5_CloseFlushesThenStatusThenEnd ==
    /\ [][(log_child # "closed" /\ log_child' = "closed") =>
             log_out' = log_out
                 \o (IF Trim(log_buffer) # <<>>
                     THEN <<writeLine(Trim(log_buffer), "log")>> ELSE <<>>)
                 \o <<writeLine(StatusLine(log_exitCode), "status"), EndOp>>]_vars
    /\ [](log_child # "closed" => StatusFrames(log_out) = {})
    /\ [](log_child = "closed" =>
             /\ Cardinality(StatusFrames(log_out)) = 1
             /\ \A i \in StatusFrames(log_out) :
                   /\ i < Len(log_out) /\ log_out[i + 1] = EndOp
                   /\ \A j \in (i + 1)..Len(log_out) : log_out[j].frame # "data")

C5_Witness ==
    /\ log_child = "closed"
    /\ log_stdoutSent = <<"a", NL, "a">>
    /\ log_out = <<ConnectedOp, writeLine(<<"a">>, "log"), writeLine(<<"a">>, "log"),
                   writeLine(StatusLine(<<0>>), "status"), EndOp>>

\* C6: in the step in which the consumer disconnects (the request's first
\* 'close' or 'aborted') the heartbeat is cancelled and SIGTERM is sent to a
\* log subprocess that is still running; after it no heartbeat is written, the
\* signal is sent at most once even if both events fire, and no subprocess is
\* running without a consumer unless the signal has been sent to it.
C6_DisconnectTearsDown ==
    /\ [](log_signals <= 1)
    /\ [](LogDisconnected =>
             /\ ~log_heartbeat
             /\ log_child = "alive" => (log_signals = 1 /\ log_killed))
    /\ [][(~LogDisconnected /\ LogDisconnected') =>
             /\ ~log_heartbeat'
             /\ log_child = "alive" => (log_signals' = log_signals + 1 /\ log_killed')]_vars
    /\ [][LogDisconnected =>
             /\ PingCount(log_out') = PingCount(log_out)
             /\ log_signals' = log_signals]_vars

C6_Witness ==
    /\ log_reqEvents = {"close", "aborted"}
    /\ log_child = "alive"
    /\ log_signals = 1
    /\ PingCount(log_out) = 1

----------------------------------------------------------------------------
(* Claims about provider normalisation (SpecProvider) *)

ProviderClosedSet == {PROVIDER_ORDER[i] : i \in 1..Len(PROVIDER_ORDER)}

\* The hint as the rules see it.
NpValue == ToLowerCase(Trim(np_raw))

\* The rules as the specification states them: the first match wins, "gpt"
\* is matched as a substring, and no match gives "unknown".
StatedProvider(value) ==
    IF value = <<>> THEN P_unknown
    ELSE IF \/ Includes(value, K_proxy)
            \/ value = K_apiKeysDash
            \/ value = K_apiKeysUnderscore THEN P_proxyAccess
    ELSE IF Includes(value, P_claude) \/ Includes(value, K_anthropic) THEN P_claude
    ELSE IF \/ Includes(value, P_codex)
            \/ Includes(value, K_openai)
            \/ Includes(value, K_gpt) THEN P_codex
    ELSE IF Includes(value, P_gemini) THEN P_gemini
    ELSE IF Includes(value, P_qwen) THEN P_qwen
    ELSE IF Includes(value, P_iflow) THEN P_iflow
    ELSE IF Includes(value, K_compat) \/ Includes(value, K_openrouter)
         THEN P_openaiCompat
    ELSE P_unknown

\* C20: for every input, normalizeProviderName returns a member of the closed
\* set of canonical identifiers, namely the one the first matching rule of the
\* fixed priority order gives; an input containing "gpt" maps to codex and an
\* input matching no rule maps to unknown.
C20_ClosedSetFirstMatchWins ==
    np_pc # "start" =>
        /\ np_provider \in ProviderClosedSet
        /\ np_provider = StatedProvider(NpValue)

\* The rule order itself is as stated: for a hint without "gpt" in it, a
\* result that is a canonical identifier is the one the stated rules give.
NpCanonicalResultsAsStated ==
    (/\ np_pc # "start"
     /\ ~Includes(NpValue, K_gpt)
     /\ np_provider \in ProviderClosedSet \ {P_unknown}) =>
        np_provider = StatedProvider(NpValue)

----------------------------------------------------------------------------
(* Claims about the Credential Freshness Evaluator (SpecHealth) *)

HlBuilt == hl_pc = "built"

HlFileIndexes == 1..Len(hl_files)

\* C11: for every credential file without a parse error and with a parseable
\* expiry E, evaluated at time now, the level is "expired" iff E <= now,
\* "warning" iff now < E <= now + 24h, and "fresh" iff E > now + 24h.
C11_ExpiryClassification ==
    HlBuilt =>
        \A i \in HlFileIndexes :
            LET file == hl_files[i]
                E == DateParse(file.expiresAt)
                level == hl_evals[i].level
            IN  (file.parseError = "" /\ IsFinite(E)) =>
                    /\ level = "expired" <=> E[1] <= Now
                    /\ level = "warning" <=> (Now < E[1] /\ E[1] <= Now + Day)
                    /\ level = "fresh" <=> E[1] > Now + Day

C11_Witness ==
    /\ HlBuilt
    /\ \E i, j \in HlFileIndexes :
          /\ hl_files[i].parseError = "" /\ hl_files[i].expiresAt = <<Now>>
          /\ hl_evals[i].level = "expired"
          /\ hl_files[j].parseError = "" /\ hl_files[j].expiresAt = <<Now + Day>>
          /\ hl_evals[j].level = "warning"

\* The level the stated order of signals gives a file.
StatedLevel(file, now) ==
    IF file.parseError # "" THEN "error"
    ELSE IF file.expiresAt # <<>>
    THEN IF file.expiresAt[1] <= now THEN "expired"
         ELSE IF file.expiresAt[1] <= now + Day THEN "warning" ELSE "fresh"
    ELSE IF file.lastRefresh # <<>>
    THEN IF now - file.lastRefresh[1] <= 7 * Day THEN "fresh"
         ELSE IF now - file.lastRefresh[1] <= 30 * Day THEN "warning" ELSE "stale"
    ELSE IF file.modifiedAt # <<>>
    THEN IF now - file.modifiedAt[1] <= 30 * Day THEN "unknown" ELSE "stale"
    ELSE "unknown"

\* C12: the level of a file is decided by the highest-fidelity signal present
\* and the lower ones are ignored: parse error, else parseable expiry, else
\* last refresh (age <= 7 days fresh, <= 30 days warning, else stale), else
\* modification time (age <= 30 days unknown, else stale), else unknown.
C12_HighestFidelitySignalDecides ==
    HlBuilt =>
        \A i \in HlFileIndexes :
            /\ hl_evals[i].level = StatedLevel(hl_files[i], Now)
            /\ hl_files[i].expiresAt # <<>> =>
                  hl_evals[i] = evaluateOAuthFileFreshness(
                      [hl_files[i] EXCEPT !.lastRefresh = <<>>, !.modifiedAt = <<>>], Now)
            /\ hl_files[i].lastRefresh # <<>> =>
                  hl_evals[i] = evaluateOAuthFileFreshness(
                      [hl_files[i] EXCEPT !.modifiedAt = <<>>], Now)

C12_Witness ==
    /\ HlBuilt
    /\ \E i, j \in HlFileIndexes :
          /\ hl_files[i].expiresAt = <<Now + Day + 1>>
          /\ hl_files[i].lastRefresh = <<Now - 30 * Day - 1>>
          /\ hl_evals[i].level = "fresh"
          /\ hl_files[j].expiresAt = <<>>
          /\ hl_files[j].lastRefresh = <<Now - 30 * Day>>
          /\ hl_files[j].modifiedAt = <<Now - 30 * Day - 1>>
          /\ hl_evals[j].level = "warning"

\* The files whose provider field is the provider, and the files
\* buildProviderHealth groups under it.
FilesWithProvider(provider) == {i \in HlFileIndexes : hl_files[i].provider = provider}

FilesGroupedUnder(provider) == {i \in HlFileIndexes : GroupKey(hl_files[i]) = provider}

\* The first file, in list order, of the greatest severity among the files given.
FirstWorst(indexes) ==
    CHOOSE i \in indexes :
        /\ \A j \in indexes : FRESHNESS_SEVERITY(hl_evals[j].level)
                                 <= FRESHNESS_SEVERITY(hl_evals[i].level)
        /\ \A j \in indexes : j < i => FRESHNESS_SEVERITY(hl_evals[j].level)
                                          < FRESHNESS_SEVERITY(hl_evals[i].level)

RollupMatches(entry, indexes) ==
    indexes # {} =>
        /\ entry.status = hl_evals[FirstWorst(indexes)].level
        /\ entry.statusMessage = hl_evals[FirstWorst(indexes)].message

\* C13: for every provider that has at least one credential file, the rollup
\* status is the level of greatest severity among the levels of that
\* provider's files, and the statusMessage is the message of the first file in
\* list order that attains it.
C13_RollupIsWorstLevel ==
    HlBuilt =>
        \A k \in 1..Len(hl_output) :
            RollupMatches(hl_output[k], FilesWithProvider(hl_output[k].provider))

\* The same statement for the files grouped under the provider after their
\* provider field has been normalised again.
RollupIsWorstLevelOfGroup ==
    HlBuilt =>
        \A k \in 1..Len(hl_output) :
            RollupMatches(hl_output[k], FilesGroupedUnder(hl_output[k].provider))

StatusAndModeMatch(entry, indexes) ==
    LET hasFiles == indexes # {}
        hasKeys == StaticKeyCount(hl_static, entry.provider) > 0
    IN  /\ entry.status = "missing" <=> (~hasFiles /\ ~hasKeys)
        /\ entry.status = "configured" <=> (~hasFiles /\ hasKeys)
        /\ hasFiles => entry.status = hl_evals[FirstWorst(indexes)].level
        /\ entry.authMode = "none" <=> (~hasFiles /\ ~hasKeys)
        /\ entry.authMode = "api-keys" <=> (~hasFiles /\ hasKeys)
        /\ entry.authMode = "oauth" <=> (hasFiles /\ ~hasKeys)
        /\ entry.authMode = "mixed" <=> (hasFiles /\ hasKeys)

\* C15: for every entry of providerHealth, status is "missing" iff the
\* provider has no credential file and no static key, "configured" iff it has
\* static keys and no credential file, and otherwise the worst level of its
\* files; authMode is "none", "api-keys", "oauth" or "mixed" according to
\* whether static keys and credential files are each present.
C15_StatusAndAuthMode ==
    HlBuilt =>
        \A k \in 1..Len(hl_output) :
            StatusAndModeMatch(hl_output[k], FilesWithProvider(hl_output[k].provider))

\* The same statement for the files grouped under the provider.
StatusAndAuthModeOfGroup ==
    HlBuilt =>
        \A k \in 1..Len(hl_output) :
            StatusAndModeMatch(hl_output[k], FilesGroupedUnder(hl_output[k].provider))

\* The lists of credential files and the static counts a call can be given.
FileLists == SeqsUpTo(FileRecords, MaxFiles)

\* C14, as stated: there is a set of credential files of one provider (the
\* files read so far and any others) for which buildProviderHealth reports
\* status "fresh" together with expiringSoonCount >= 1.
C14_FreshStatusWithExpiringSoon ==
    \E oauthFiles \in FileLists :
        /\ Len(hl_files) <= Len(oauthFiles)
        /\ SubSeq(oauthFiles, 1, Len(hl_files)) = hl_files
        /\ LET output == buildProviderHealth(oauthFiles, hl_static, Now)
           IN  \E k \in 1..Len(output) :
                   output[k].status = "fresh" /\ output[k].expiringSoonCount >= 1

\* The files of an entry whose expiry is parseable and satisfies the test.
ExpiringWithin(provider, from, to) ==
    {i \in FilesGroupedUnder(provider) :
        /\ hl_files[i].expiresAt # <<>>
        /\ from < hl_files[i].expiresAt[1]
        /\ hl_files[i].expiresAt[1] <= to}

\* C14, amended: expiredCount and expiringSoonCount count the raw expiry
\* timestamps of the files of the entry, whatever the rollup is; an entry
\* with expiringSoonCount >= 1 has status warning, stale, expired or error,
\* and one with expiredCount >= 1 has status expired or error, so a "fresh"
\* status goes with both counts at zero.
C14_ExpiringSoonRaisesStatus ==
    HlBuilt =>
        \A k \in 1..Len(hl_output) :
            LET entry == hl_output[k]
            IN  /\ entry.expiringSoonCount =
                      Cardinality(ExpiringWithin(entry.provider, Now, Now + Day))
                /\ entry.expiredCount =
                      Cardinality(ExpiringWithin(entry.provider, -1, Now))
                /\ entry.expiringSoonCount >= 1 =>
                      entry.status \in {"warning", "stale", "expired", "error"}
                /\ entry.expiredCount >= 1 => entry.status \in {"expired", "error"}
                /\ entry.status = "fresh" =>
                      (entry.expiringSoonCount = 0 /\ entry.expiredCount = 0)

C14_Witness ==
    /\ HlBuilt
    /\ \E k \in 1..Len(hl_output) :
          /\ hl_output[k].status = "expired"
          /\ hl_output[k].expiringSoonCount = 1
          /\ hl_output[k].expiredCount = 1

----------------------------------------------------------------------------
(* Claims about the service records of the resolver (SpecSummary) *)

SumReturned == sum_summary # <<>>

FlagsMatchState(record) ==
    /\ record.running <=> record.state = S_running
    /\ record.exited <=> record.state = S_exited

\* C18: in every service record returned by the resolver, from either
\* backend, running is true iff state = "running" and exited is true iff
\* state = "exited", also when the record is built from an inspect result
\* whose Running flag and Status string disagree.
C18_FlagsMatchState ==
    SumReturned =>
        \A i \in 1..Len(sum_summary[1].services) :
            FlagsMatchState(sum_summary[1].services[i])

\* The same statement for the records of the compose backend, and for the
\* exited flag of every record.
ComposeFlagsMatchState ==
    (SumReturned /\ sum_summary[1].backend = "compose") =>
        \A i \in 1..Len(sum_summary[1].services) :
            FlagsMatchState(sum_summary[1].services[i])

ExitedFlagMatchesState ==
    SumReturned =>
        \A i \in 1..Len(sum_summary[1].services) :
            sum_summary[1].services[i].exited
                <=> sum_summary[1].services[i].state = S_exited

\* The result of the backend call the summary was built from.
SumBackendResult ==
    IF sum_summary[1].backend = "compose" THEN sum_compose[1] ELSE sum_ps[1]

\* The primary as stated: the row of the default service, else the first row.
StatedPrimary(services) ==
    IF \E i \in 1..Len(services) : services[i].service = DEFAULT_SERVICE
    THEN services[CHOOSE i \in 1..Len(services) :
                     /\ services[i].service = DEFAULT_SERVICE
                     /\ \A j \in 1..(i - 1) : services[j].service # DEFAULT_SERVICE]
    ELSE services[1]

\* C19: a summary with dockerAvailable = true has a non-empty services list;
\* a successful backend call that yields zero rows gives exactly one
\* placeholder row with state "not-created", running = false and exited =
\* false; overallState is "running" if the primary (the row of the default
\* service, else the first row) is running, else the primary's state, and
\* "unknown" when there is no row.
C19_PrimaryAlwaysExists ==
    SumReturned =>
        LET summary == sum_summary[1]
            services == summary.services
        IN  /\ summary.dockerAvailable => services # <<>>
            /\ (/\ summary.dockerAvailable
                /\ splitJSONLines(SumBackendResult.stdout) = <<>>) =>
                  /\ Len(services) = 1
                  /\ services[1].state = S_notCreated
                  /\ ~services[1].running
                  /\ ~services[1].exited
            /\ summary.overallState =
                  IF services = <<>> THEN S_unknown
                  ELSE IF StatedPrimary(services).running THEN S_running
                  ELSE StatedPrimary(services).state

C19_Witness ==
    /\ SumReturned
    /\ sum_mode = "auto"
    /\ sum_summary[1].backend = "container"
    /\ sum_summary[1].dockerAvailable
    /\ sum_ps[1].stdout = <<NL>>
    /\ sum_summary[1].services = <<PlaceholderRow>>
    /\ sum_summary[1].overallState = S_notCreated

\* A compose summary whose primary is not its first row.
PrimaryIsNotFirstRow ==
    /\ SumReturned
    /\ sum_summary[1].backend = "compose"
    /\ Len(sum_summary[1].services) = 2
    /\ sum_summary[1].services[1].service # DEFAULT_SERVICE
    /\ sum_summary[1].overallState = S_running

----------------------------------------------------------------------------
(* Claims about the Provider Model Aggregator (SpecModels) *)

MdlDone == mdl_doc # <<>>

\* The records each endpoint listed, <<>> when its listing was not used.
OpenaiListing ==
    IF ListedOpenai(mdl_openai[1]) = <<>> THEN <<>> ELSE ListedOpenai(mdl_openai[1])[1]

GeminiListing ==
    IF ListedGemini(mdl_gemini[1]) = <<>> THEN <<>> ELSE ListedGemini(mdl_gemini[1])[1]

\* The (provider, id) pairs and the ids each endpoint reported.
OpenaiReports ==
    {<<inferProviderFromModel(OpenaiListing[i].id, OpenaiListing[i].owned_by),
       normalizeModelID(OpenaiListing[i].id)>> : i \in 1..Len(OpenaiListing)}
        \ {<<p, <<>>>> : p \in {inferProviderFromModel(OpenaiListing[i].id,
                                   OpenaiListing[i].owned_by) : i \in 1..Len(OpenaiListing)}}

GeminiRawID(model) == OrElse(model.name, model.id)

GeminiReports ==
    {<<inferProviderFromModel(GeminiRawID(GeminiListing[i]), GeminiListing[i].owned_by),
       normalizeModelID(GeminiRawID(GeminiListing[i]))>> : i \in 1..Len(GeminiListing)}
        \ {<<p, <<>>>> : p \in {inferProviderFromModel(GeminiRawID(GeminiListing[i]),
                                   GeminiListing[i].owned_by) : i \in 1..Len(GeminiListing)}}

\* The (provider, id, sources) triples of the catalogue, and how many of
\* its models have a given id.
CatalogueEntries ==
    UNION {{<<mdl_doc[1].providerModels[g].provider,
              mdl_doc[1].providerModels[g].models[m].id,
              mdl_doc[1].providerModels[g].models[m].sources>> :
                m \in 1..Len(mdl_doc[1].providerModels[g].models)} :
           g \in 1..Len(mdl_doc[1].providerModels)}

EntriesWithID(id) == {entry \in CatalogueEntries : entry[2] = id}

\* C16, as stated: a model reported by both endpoints (format A id "X",
\* format B name "models/X") yields exactly one entry with id "X", whose
\* sources contain both endpoints; merging is idempotent and the catalogue
\* does not depend on which endpoint completed first.
C16_OneEntryPerModel ==
    MdlDone =>
        /\ \A a \in OpenaiReports, b \in GeminiReports :
              a[2] = b[2] =>
                  /\ Cardinality(EntriesWithID(a[2])) = 1
                  /\ \A entry \in EntriesWithID(a[2]) :
                        entry[3] = <<"gemini", "openai">>
        /\ mdl_doc[1] = getProviderModels(fetchProxyJSON(mdl_exchangeA),
                                          fetchProxyJSON(mdl_exchangeB))

\* Collecting both listings once more into the entries already collected.
EntriesCollected == ModelEntries(mdl_openai[1], mdl_gemini[1])

EntriesCollectedTwice ==
    CollectGemini(CollectOpenai(EntriesCollected, OpenaiListing), GeminiListing)

\* The catalogue has exactly one entry per (provider, id) pair reported, the
\* provider being inferred for each record from its own owner hint and id;
\* the entry's sources are the endpoints that reported that pair; merging is
\* idempotent and the catalogue is determined by the two responses alone,
\* whichever arrived first.
OneEntryPerProviderAndId ==
    MdlDone =>
        /\ {<<entry[1], entry[2]>> : entry \in CatalogueEntries}
              = OpenaiReports \cup GeminiReports
        /\ mdl_doc[1].totalModels = Cardinality(OpenaiReports \cup GeminiReports)
        /\ \A entry \in CatalogueEntries :
              entry[3] = SortedSources(
                  (IF <<entry[1], entry[2]>> \in OpenaiReports THEN {"openai"} ELSE {})
                  \cup (IF <<entry[1], entry[2]>> \in GeminiReports THEN {"gemini"} ELSE {}))
        /\ EntriesCollectedTwice = EntriesCollected
        /\ mdl_doc[1] = getProviderModels(fetchProxyJSON(mdl_exchangeA),
                                          fetchProxyJSON(mdl_exchangeB))

MergedFromBothEndpoints ==
    /\ MdlDone
    /\ mdl_first = "gemini"
    /\ <<P_codex, M_gpt4o, <<"gemini", "openai">>>> \in CatalogueEntries
    /\ mdl_doc[1].totalModels = 1

\* The same model id under two providers, each entry with one source.
SameIdUnderTwoProviders ==
    /\ MdlDone
    /\ <<P_codex, M_gpt4o, <<"gemini">>>> \in CatalogueEntries
    /\ <<<<"s", "y", "s", "t", "e", "m">>, M_gpt4o, <<"openai">>>> \in CatalogueEntries

\* What the claim says fetchProxyJSON makes of an exchange.
FetchResultAsStated(exchange, result) ==
    /\ result.ok <=> (exchange.kind = "response" /\ exchange.status \in 200..299)
    /\ exchange.kind # "response" =>
          (result.status = 0 /\ result.error # "" /\ result.data = <<>>)
    /\ exchange.kind = "response" =>
          /\ result.status = exchange.status
          /\ (exchange.body.text = "" \/ exchange.body.parsed = <<>>) =>
                result.data = <<>>
          /\ exchange.status \notin 200..299 => result.error # ""

\* C17: fetchProxyJSON never throws: a non-2xx status, a network failure, an
\* abort on timeout and an unparseable body each become a result with
\* ok = false or data = null; when exactly one endpoint fails the document
\* getProviderModels returns holds exactly the
\* models of the other endpoint and records ok, status and error of each
\* endpoint separately.
C17_EndpointsFailIndependently ==
    /\ mdl_openai # <<>> => FetchResultAsStated(mdl_exchangeA, mdl_openai[1])
    /\ mdl_gemini # <<>> => FetchResultAsStated(mdl_exchangeB, mdl_gemini[1])
    /\ MdlDone =>
          /\ mdl_doc[1].endpointStatus.openai =
                [ok |-> mdl_openai[1].ok, status |-> mdl_openai[1].status,
                 count |-> Len(OpenaiListing), error |-> mdl_openai[1].error]
          /\ mdl_doc[1].endpointStatus.gemini =
                [ok |-> mdl_gemini[1].ok, status |-> mdl_gemini[1].status,
                 count |-> Len(GeminiListing), error |-> mdl_gemini[1].error]
          /\ (mdl_openai[1].ok /\ ~mdl_gemini[1].ok) =>
                CatalogueEntries = {<<r[1], r[2], <<"openai">>>> : r \in OpenaiReports}
          /\ (mdl_gemini[1].ok /\ ~mdl_openai[1].ok) =>
                CatalogueEntries = {<<r[1], r[2], <<"gemini">>>> : r \in GeminiReports}

C17_Witness ==
    /\ MdlDone
    /\ mdl_exchangeB.kind = "aborted"
    /\ mdl_first = "gemini"
    /\ mdl_openai[1].ok
    /\ ~mdl_doc[1].endpointStatus.gemini.ok
    /\ mdl_doc[1].endpointStatus.gemini.error = "This operation was aborted"
    /\ mdl_doc[1].endpointStatus.openai.ok
    /\ mdl_doc[1].totalModels = 2

----------------------------------------------------------------------------
(* Claims about what a timed-out command looks like to callers *)

\* The result of a command that printed the same output as `result` and
\* exited by itself with a non-zero code.
OrdinaryFailure(result) ==
    [result EXCEPT !.code = 1, !.signal = "null", !.timedOut = FALSE]

\* C21: a subprocess timeout is tagged distinctly from an ordinary failure:
\* the summary produced from a "docker compose ps" call that timed out differs
\* from the summary produced from a call that exited non-zero with the same
\* output.
C21_TimeoutTaggedDistinctly ==
    (/\ SumReturned
     /\ sum_mode = "compose"
     /\ sum_compose[1].timedOut)
    => sum_summary[1] # ComposeSummary(sum_mode, OrdinaryFailure(sum_compose[1]))

\* No summary has a field that depends on timedOut or on the signal: in every
\* mode the summary returned is the one the same calls give with every
\* timed-out result replaced by an ordinary failure.
SummaryIgnoresTimeout ==
    SumReturned =>
      LET compose == IF sum_compose = <<>> THEN <<>>
                     ELSE IF sum_compose[1].timedOut
                          THEN <<OrdinaryFailure(sum_compose[1])>> ELSE sum_compose
          ps == IF sum_ps # <<>> /\ sum_ps[1].timedOut
                THEN OrdinaryFailure(sum_ps[1]) ELSE IF sum_ps # <<>> THEN sum_ps[1]
                ELSE OrdinaryFailure(sum_compose[1])
          inspect == IF sum_inspect # <<>> /\ sum_inspect[1].timedOut
                     THEN <<OrdinaryFailure(sum_inspect[1])>> ELSE sum_inspect
      IN  sum_summary[1] =
            IF sum_ps = <<>> THEN ComposeSummary(sum_mode, compose[1])
            ELSE ServiceSummaryAfterDirect(sum_mode, compose,
                     ContainerSummary(sum_mode, ps, inspect))

\* In the action result the only trace of a timeout is the code: -1 where
\* the child was killed by the signal, a value no exit code takes.
ActionTimeoutShowsInCode ==
    (/\ act_result # <<>>
     /\ act_mode = "compose"
     /\ act_composeRes # <<>>
     /\ act_composeRes[1].timedOut)
    => /\ act_result[1].code = -1
       /\ act_result[1] # CommandActionResult("compose", OrdinaryFailure(act_composeRes[1]))
       /\ "timedOut" \notin act_result[1].fields

----------------------------------------------------------------------------
(* Claims about inferProviderFromModel (SpecInfer) *)

InfDone == inf_pc = "done"

\* The keyword families, in the order they are checked.
KeywordFamilies ==
    <<[provider |-> P_claude, keywords |-> {P_claude}],
      [provider |-> P_gemini, keywords |-> {P_gemini}],
      [provider |-> P_qwen, keywords |-> {P_qwen}],
      [provider |-> P_iflow, keywords |-> {P_iflow}],
      [provider |-> P_codex,
       keywords |-> {K_gpt, <<"o", "1">>, <<"o", "3">>, <<"o", "4">>, P_codex,
                     <<"c", "h", "a", "t", "g", "p", "t">>}]>>

MatchingFamilies(id) ==
    {i \in 1..Len(KeywordFamilies) :
        \E k \in KeywordFamilies[i].keywords : Includes(id, k)}

FallbackProviders == {P_unknown, P_proxyAccess, P_openaiCompat}

\* The decision in the stated order: owner hint, first matching family, owner
\* hint, unknown.
StatedInference(modelID, ownedBy) ==
    LET owner == normalizeProviderName(ownedBy)
        hits == MatchingFamilies(ToLowerCase(Trim(modelID)))
    IN  IF owner \notin FallbackProviders THEN owner
        ELSE IF hits # {}
        THEN KeywordFamilies[CHOOSE i \in hits : \A j \in hits : i <= j].provider
        ELSE IF owner # <<>> THEN owner
        ELSE P_unknown

InfBlankId == Trim(inf_id) = <<>>

\* C27 as stated: inferProviderFromModel returns the normalized owner hint
\* when it is not unknown, proxy-access or openai-compat; otherwise the
\* provider of the first keyword family found in the model id (claude, gemini,
\* qwen, iflow, codex family); otherwise the owner hint; otherwise unknown.
C27_InferenceOrder ==
    InfDone => inf_provider = StatedInference(inf_id, inf_owner)

\* C27 amended: the stated order decides for every model id that is not
\* blank; for a blank model id whose owner hint is one of the three fallback
\* identifiers the result is unknown, not the owner hint.
C27_InferenceOrderUnlessBlank ==
    InfDone =>
        IF InfBlankId /\ normalizeProviderName(inf_owner) \in FallbackProviders
        THEN inf_provider = P_unknown
        ELSE inf_provider = StatedInference(inf_id, inf_owner)

\* An id that matches two families, with a fallback owner hint, got the
\* earlier family.
C27_Witness ==
    /\ InfDone
    /\ inf_id = P_gemini \o P_claude
    /\ inf_owner = K_openrouter
    /\ inf_provider = P_claude

----------------------------------------------------------------------------
(* Claims about writes to an ended log stream (SpecLogs) *)

\* The positions of log_out where res.end() was called.
EndPositions == {i \in 1..Len(log_out) : log_out[i].op = "end"}

\* The positions of log_out where `frame` was written after a res.end().
WrittenAfterEnd(frame) ==
    {j \in 1..Len(log_out) :
        /\ log_out[j].frame = frame
        /\ \E i \in EndPositions : i < j}

\* C28: nothing is written to the response of a log stream after it has been
\* ended: no data frame and no heartbeat frame follows res.end(), and res.end()
\* is called at most once.
C28_NothingWrittenAfterEnd ==
    /\ Cardinality(EndPositions) <= 1
    /\ WrittenAfterEnd("data") = {}
    /\ WrittenAfterEnd("ping") = {}

\* When the spawn succeeded the response is ended once, by the 'close'
\* handler, and no data frame follows.
EndedOnceWhenSpawned ==
    ~LogSpawnFailed =>
        /\ Cardinality(EndPositions) <= 1
        /\ WrittenAfterEnd("data") = {}

\* Once the request has emitted 'close' or 'aborted' no heartbeat is written.
NoHeartbeatAfterDisconnect ==
    [][LogDisconnected => PingCount(log_out') = PingCount(log_out)]_vars

----------------------------------------------------------------------------
(* Claims about the heartbeat of a log stream (SpecLogs) *)

\* The stream is open: the response has not been ended and the request has
\* emitted neither 'close' nor 'aborted'.
StreamOpen == EndPositions = {} /\ ~LogDisconnected

\* C24: while a log stream is open the heartbeat interval is set from the
\* moment the stream opens, and a tick can write its frame in every state,
\* whatever has been read from the child and whatever is buffered.
C24_HeartbeatOnEveryTick ==
    StreamOpen =>
        /\ log_heartbeat
        /\ PingCount(log_out) < MaxPings => ENABLED LogHeartbeat

\* A heartbeat was written between log lines, with a partial line buffered.
C24_Witness ==
    /\ StreamOpen
    /\ log_buffer # <<>>
    /\ \E i, j \in 1..Len(log_out) :
          i < j /\ log_out[i].frame = "data" /\ log_out[j].frame = "ping"

\* A tick writes one ping frame and touches neither the buffer nor the child.
HeartbeatTickWritesOnePing ==
    [][PingCount(log_out') > PingCount(log_out) =>
          /\ log_out' = Append(log_out, PingOp)
          /\ UNCHANGED <<log_buffer, log_child, log_stdoutRest, log_stderrRest>>]_vars

----------------------------------------------------------------------------
(* Claims about the dashboard client (SpecClient, SpecClientFair) *)

\* C29: the client holds at most one open log stream connection: every
\* EventSource other than the one in state.eventSource has been closed.
C29_AtMostOneOpenSource ==
    /\ cli_open \subseteq {cli_eventSource}
    /\ Cardinality(cli_open) <= 1

\* A stream opened by a refresh was replaced by the reconnect timer's.
C29_Witness ==
    /\ cli_connectCaller = "timer"
    /\ cli_eventSource # 0
    /\ cli_open = {cli_eventSource}
    /\ cli_timers > 0
    /\ cli_currentContainer = "other"

\* C30: while the resolution gate is blocked no log stream connection is
\* open, whatever refresh was in flight and whatever timer was pending when
\* the gate closed.
C30_NoStreamWhileBlocked ==
    cli_blocked => cli_open = {} /\ cli_eventSource = 0

\* A refresh that was in flight when the gate closed has called connectLogs
\* and a reconnect timer is still pending: no stream was opened.
C30_Witness ==
    /\ cli_blocked
    /\ cli_connectCaller = "refresh"
    /\ cli_timers > 0
    /\ cli_open = {}
    /\ cli_logsState = "paused"

\* The gate follows the window, and a blocked page shows it.
GateFollowsViewport ==
    /\ cli_blocked <=> cli_viewport = "small"
    /\ cli_blocked => cli_logsState = "paused"

\* C26: after the event source reported an error the client has closed it
\* and the reconnect timer opens a new connection unless the gate is
\* blocked, so a failed stream leads to an open stream or a blocked gate; a
\* connection is opened only by a connectLogs call of the client.
C26_ClientReconnects ==
    /\ (cli_logsState = "reconnecting") ~> (cli_eventSource # 0 \/ cli_blocked)
    /\ [][cli_open' \ cli_open # {} =>
             /\ ~cli_blocked
             /\ cli_connectCaller' \in {"refresh", "timer"}
             /\ cli_open' \ cli_open = {cli_eventSource'}]_vars

\* The reconnect timer has reopened the stream after an error.
C26_Witness ==
    /\ ~cli_blocked
    /\ cli_connectCaller = "timer"
    /\ cli_eventSource # 0
    /\ cli_logsState = "streaming"
    /\ cli_timers = 0
    /\ cli_refreshes = 0

\* While the page shows "reconnecting" the source is closed and a timer is
\* pending.
ReconnectingHasTimer ==
    cli_logsState = "reconnecting" =>
        cli_timers > 0 /\ cli_eventSource = 0 /\ cli_open = {}

----------------------------------------------------------------------------
(* The server's requests: access, docker verbs, statelessness *)

\* The request that effect number i was made for.
RequestOf(i) == srv_reqs[srv_effects[i].req]

\* The effects made for request number req.
EffectsOf(req) == {i \in 1..Len(srv_effects) : srv_effects[i].req = req}

\* The docker verb of an argument array: the subcommand, after the compose
\* file for docker compose; none for an empty array.
DockerVerb(args) ==
    IF args = <<>> THEN <<>>
    ELSE IF args[1] = "compose" THEN <<"compose", args[4]>>
    ELSE <<args[1]>>

ReadOnlyVerbs == {<<"compose", "ps">>, <<"ps">>, <<"inspect">>, <<"logs">>}

MutatingVerbs == {<<"compose", "up">>, <<"compose", "stop">>, <<"compose", "restart">>,
                  <<"start">>, <<"stop">>, <<"restart">>, <<"up">>}

ReadPaths == {<<"api", "summary">>, <<"api", "auth-mechanisms">>,
              <<"api", "provider-models">>, <<"api", "healthz">>,
              <<"api", "logs", "stream">>}

\* C22: every docker command spawned for a GET request to the summary,
\* auth-mechanisms, provider-models, healthz or log-stream path has a
\* read-only verb (compose ps, ps, inspect, logs), and every docker command
\* with a start, stop, restart or up verb was spawned for a POST request to
\* a path under /api/container/.
C22_MutatedOnlyByActions ==
    \A i \in 1..Len(srv_effects) :
        srv_effects[i].kind = "docker" =>
            /\ (RequestOf(i).method = "GET" /\ RequestOf(i).pathname \in ReadPaths)
                   => DockerVerb(srv_effects[i].args) \in ReadOnlyVerbs
            /\ DockerVerb(srv_effects[i].args) \in MutatingVerbs
                   => (RequestOf(i).method = "POST" /\ UnderContainer(RequestOf(i).pathname))

\* A summary request has run docker inspect and a POST to
\* /api/container/restart has run a restart.
C22_Witness ==
    /\ \E i \in 1..Len(srv_effects) :
         /\ RequestOf(i).pathname = <<"api", "summary">>
         /\ DockerVerb(srv_effects[i].args) = <<"inspect">>
    /\ \E i \in 1..Len(srv_effects) :
         /\ RequestOf(i).method = "POST"
         /\ DockerVerb(srv_effects[i].args) \in MutatingVerbs

\* The three addresses the server takes for the local machine.
LoopbackAddresses == {"127.0.0.1", "::1", "::ffff:127.0.0.1"}

\* Request number req is one the access check is to refuse.
RemoteApiRequest(req) ==
    /\ UnderApi(srv_reqs[req].pathname)
    /\ ~srv_allowRemote
    /\ srv_reqs[req].addr \notin LoopbackAddresses

\* C23: with remote access off, every request to a path under /api/ from an
\* address that is not a loopback address has been answered 403 with the
\* fixed "Local access only" body, and no subprocess, file-system or network
\* work has been started for it.
C23_RemoteRefusedBeforeAnyWork ==
    \A req \in 1..Len(srv_reqs) :
        RemoteApiRequest(req) =>
            /\ srv_reqs[req].pc = "done"
            /\ srv_reqs[req].status = 403
            /\ srv_reqs[req].body = [kind |-> "error", value |-> LocalAccessOnly]
            /\ EffectsOf(req) = {}

\* A log stream request and a container action from a remote address have
\* both been refused.
C23_Witness ==
    /\ Len(srv_reqs) = 2
    /\ \A req \in 1..2 : RemoteApiRequest(req) /\ srv_reqs[req].status = 403
    /\ {srv_reqs[1].pathname, srv_reqs[2].pathname}
           = {<<"api", "logs", "stream">>, <<"api", "container", "restart">>}

\* With remote access on, or from the local machine, the same requests do
\* their work.
LocalOrAllowedIsServed ==
    \A req \in 1..Len(srv_reqs) :
        (UnderApi(srv_reqs[req].pathname) /\ ~RemoteApiRequest(req))
            => srv_reqs[req].route # "denied"

\* Request number req is a served summary, auth-mechanisms or provider-models
\* request that has been answered.
AnsweredRead(req) ==
    /\ srv_reqs[req].method = "GET"
    /\ srv_reqs[req].pathname \in {<<"api", "summary">>, <<"api", "auth-mechanisms">>,
                                   <<"api", "provider-models">>}
    /\ srv_reqs[req].pc = "done"
    /\ ~RemoteApiRequest(req)

\* The response the code computes from what one request observed.
ResponseFrom(pathname, observed) ==
    CASE pathname = <<"api", "summary">> ->
             [kind |-> "summary", value |-> SummaryFor(srv_mode, observed)]
      [] pathname = <<"api", "auth-mechanisms">> ->
             [kind |-> "auth",
              value |-> buildProviderHealth(observed[1].files, observed[1].static, Now)]
      [] OTHER ->
             [kind |-> "models",
              value |-> getProviderModels(fetchProxyJSON(observed[1].a),
                                          fetchProxyJSON(observed[1].b))]

\* C25: the response to a summary, auth-mechanisms or provider-models
\* request is the function of what that request itself observed (command
\* results, files, upstream responses), whatever other requests were handled
\* before it or are in flight; two such requests to the same path that
\* observed the same get the same response.
C25_ResponseFromOwnObservations ==
    /\ \A req \in 1..Len(srv_reqs) :
         AnsweredRead(req) =>
             /\ srv_reqs[req].observed # <<>>
             /\ srv_reqs[req].status = 200
             /\ srv_reqs[req].body
                    = ResponseFrom(srv_reqs[req].pathname, srv_reqs[req].observed)
    /\ \A a, b \in 1..Len(srv_reqs) :
         (/\ AnsweredRead(a)
          /\ AnsweredRead(b)
          /\ srv_reqs[a].pathname = srv_reqs[b].pathname
          /\ srv_reqs[a].observed = srv_reqs[b].observed)
             => srv_reqs[a].body = srv_reqs[b].body

\* Two summary requests were in flight together, observed different results
\* and were answered differently.
C25_Witness ==
    /\ Len(srv_reqs) = 2
    /\ AnsweredRead(1) /\ AnsweredRead(2)
    /\ srv_reqs[1].pathname = <<"api", "summary">>
    /\ srv_reqs[2].pathname = <<"api", "summary">>
    /\ srv_reqs[1].body # srv_reqs[2].body
    /\ \E i, j \in 1..Len(srv_effects) :
         i < j /\ srv_effects[i].req = 2 /\ srv_effects[j].req = 1

\* Only the requests change: the configuration read at start-up stays.
ServerConfigurationFixed == [][srv_mode' = srv_mode /\ srv_allowRemote' = srv_allowRemote]_vars

====
